---- MODULE Spec2Model ----
(***************************************************************************)
(* Budget dashboard: transaction classification, the store that holds the  *)
(* fetched and categorized collections, the balance reconstruction and the *)
(* recurrence detector.                                                    *)
(*                                                                         *)
(* Representation.  A JavaScript string whose characters the code looks    *)
(* at (subcategory, override_subcategory) is a sequence of one-character   *)
(* strings, so toLowerCase and includes are computed.  Strings the code    *)
(* only copies (memo, account) are TLA+ strings.  An ISO date "YYYY-MM-DD" *)
(* is the triple <<year, month, day>>.  Amounts are whole numbers (pence). *)
(***************************************************************************)
EXTENDS Integers, Sequences, FiniteSets, TLC

VARIABLES
    db,               \* backend raw_transactions table, as the API returns it
    requests,         \* fetches sent and not yet answered
    rawTransactions,  \* store.rawTransactions
    income,           \* store.income
    outgoings,        \* store.outgoings
    purchases,        \* store.purchases
    stats,            \* store.stats
    loading,          \* store.loading
    error,            \* store.error
    transactions,     \* argument of a direct call of categorizeRawTransactions
                      \* or of identifyRecurringTransactions
    categorized,      \* value categorizeRawTransactions returned
    type,             \* argument of identifyRecurringTransactions
    recurring,        \* value identifyRecurringTransactions returned
    balanceOverTime,  \* last call of calculateBalanceOverTime: argument and value
    returned,         \* every (arguments, value) of calculateBalanceOverTime so far
    today,            \* new Date(), the day it is
    calculation,      \* last call of calculateRecurringTransactions by the hook:
                      \* the arguments afterwards, the anchor and the value
    recurringCalc,    \* store.recurringCalc
    card,             \* what RecurringTransactionsCard rendered
    scheduled,        \* backend collection of scheduled outgoings
    cleanupCall,      \* handleCleanupDuplicates at its await: the request, then
                      \* the answer on its way back
    cleaningDuplicates,  \* ScheduledOutgoingsTable state
    duplicateResult,     \* ScheduledOutgoingsTable state
    scheduledOutgoings,  \* store.scheduledOutgoings
    outgoingsFetches,    \* calls of fetchScheduledOutgoings not yet answered
    cleanups,         \* every run of the duplicate removal in the backend so far
    typeChanges,      \* calls of handleTypeChange at their await
    selectedMonth,    \* store.selectedMonth
    useDateRange,     \* store.useDateRange
    dateRange,        \* store.dateRange
    updatingTransactionId,  \* TransactionsTable state
    importDialogOpen,     \* ScheduledOutgoingsTable state
    selectedTransaction,  \* ScheduledOutgoingsTable state
    saving,               \* ScheduledOutgoingsTable state
    deleting,             \* ScheduledOutgoingsTable state
    editingId,            \* ScheduledOutgoingsTable state
    editData,             \* ScheduledOutgoingsTable state
    outgoingCalls,    \* handlers of the table at their await: the request,
                      \* then the answer on its way back
    submitted,        \* the handlers that have sent a request to /outgoings so far
    balanceDayOfMonth,    \* Dashboard state
    upcomingOutgoings,    \* Dashboard state
    upcomingDeps,     \* the dependencies the upcoming-outgoings effect last ran with
    rendered,         \* what the last render gave the table and the spend card
    chart,            \* BalanceChart: its props and the normalizedData it drew
    whileLoop         \* the while loop of calculateRecurringTransactions: its
                      \* nextIncomeDate and where it stands

vars ==
    <<db, requests, rawTransactions, income, outgoings, purchases, stats,
      loading, error, transactions, categorized, type, recurring,
      balanceOverTime, returned, today, calculation, recurringCalc, card,
      scheduled, cleanupCall, cleaningDuplicates, duplicateResult,
      scheduledOutgoings, outgoingsFetches, cleanups,
      typeChanges, selectedMonth, useDateRange, dateRange, updatingTransactionId,
      importDialogOpen, selectedTransaction, saving, deleting,
      editingId, editData, outgoingCalls, submitted,
      balanceDayOfMonth, upcomingOutgoings, upcomingDeps, rendered, chart,
      whileLoop>>

classifyVars ==
    <<transactions, categorized>>

balanceVars ==
    <<balanceOverTime, returned>>

recurringVars ==
    <<type, recurring>>

projectionVars ==
    <<today, calculation, recurringCalc, card>>

duplicateVars ==
    <<scheduled, cleanupCall, cleaningDuplicates, duplicateResult,
      scheduledOutgoings, outgoingsFetches, cleanups>>

overrideVars ==
    <<typeChanges, selectedMonth, useDateRange, dateRange, updatingTransactionId>>

tableVars ==
    <<importDialogOpen, selectedTransaction, saving, deleting,
      editingId, editData, outgoingCalls, submitted>>

upcomingVars ==
    <<balanceDayOfMonth, upcomingOutgoings, upcomingDeps, rendered>>

storeVars ==
    <<rawTransactions, income, outgoings, purchases, stats, loading, error>>

----------------------------------------------------------------------------
(* Bounds *)

MaxTxns == 2

MaxRequests == 1

\* Transactions in the three lists together, for calculateBalanceOverTime
MaxEvents == 3

\* Calls of calculateBalanceOverTime in one run
MaxCalls == 2

\* Transactions given to identifyRecurringTransactions
MaxRecurring == 4

----------------------------------------------------------------------------
(* Strings *)

\* "" 
EmptyStr ==
    <<>>

\* undefined / null: no string at all (not a sequence of characters)
NoStr ==
    <<"undefined">>

Upper ==
    <<"A", "B", "C", "D", "E", "F", "G", "H", "I", "J", "K", "L", "M", "N", "O", "P", "Q", "R", "S", "T", "U", "V", "W", "X", "Y", "Z">>

Lower ==
    <<"a", "b", "c", "d", "e", "f", "g", "h", "i", "j", "k", "l", "m", "n", "o", "p", "q", "r", "s", "t", "u", "v", "w", "x", "y", "z">>

ToLowerChar(c) ==
    IF \E i \in 1..Len(Upper) : Upper[i] = c
    THEN Lower[CHOOSE i \in 1..Len(Upper) : Upper[i] = c]
    ELSE c

\* String.prototype.toLowerCase
ToLowerCase(s) ==
    [i \in 1..Len(s) |-> ToLowerChar(s[i])]

\* String.prototype.includes
Includes(s, needle) ==
    \E i \in 0..(Len(s) - Len(needle)) : SubSeq(s, i + 1, i + Len(needle)) = needle

\* JavaScript truthiness of a string-or-undefined value
Truthy(s) ==
    s # NoStr /\ s # EmptyStr

\* a || b
Or(a, b) ==
    IF Truthy(a) THEN a ELSE b

\* The literals of the classification rules
COUNTER_CREDIT ==
    <<"c", "o", "u", "n", "t", "e", "r", " ", "c", "r", "e", "d", "i", "t">>

DIRECT_DEBIT ==
    <<"d", "i", "r", "e", "c", "t", " ", "d", "e", "b", "i", "t">>

BILL_PAYMENT ==
    <<"b", "i", "l", "l", " ", "p", "a", "y", "m", "e", "n", "t">>

STANDING_ORDER ==
    <<"s", "t", "a", "n", "d", "i", "n", "g", " ", "o", "r", "d", "e", "r">>

RECURRING_MONTHLY_PAYMENT ==
    <<"r", "e", "c", "u", "r", "r", "i", "n", "g", " ", "m", "o", "n", "t", "h", "l", "y", " ", "p", "a", "y", "m", "e", "n", "t">>

CREDIT_PAYMENT ==
    <<"c", "r", "e", "d", "i", "t", " ", "p", "a", "y", "m", "e", "n", "t">>

CARD_PURCHASE ==
    <<"c", "a", "r", "d", " ", "p", "u", "r", "c", "h", "a", "s", "e">>

DEBIT ==
    <<"d", "e", "b", "i", "t">>

\* Subcategory values: the types the transactions table offers, and variants
CounterCredit ==
    <<"C", "o", "u", "n", "t", "e", "r", " ", "C", "r", "e", "d", "i", "t">>

DirectDebit ==
    <<"D", "i", "r", "e", "c", "t", " ", "D", "e", "b", "i", "t">>

Debit ==
    <<"D", "e", "b", "i", "t">>

CardPurchase ==
    <<"C", "a", "r", "d", " ", "P", "u", "r", "c", "h", "a", "s", "e">>

BillPayment ==
    <<"B", "i", "l", "l", " ", "P", "a", "y", "m", "e", "n", "t">>

StandingOrder ==
    <<"S", "t", "a", "n", "d", "i", "n", "g", " ", "O", "r", "d", "e", "r">>

Unpaid ==
    <<"U", "n", "p", "a", "i", "d">>

FundsTransfer ==
    <<"F", "u", "n", "d", "s", " ", "T", "r", "a", "n", "s", "f", "e", "r">>

RecurringMonthlyPayment ==
    <<"R", "e", "c", "u", "r", "r", "i", "n", "g", " ", "M", "o", "n", "t", "h", "l", "y", " ", "P", "a", "y", "m", "e", "n", "t">>

CreditPayment ==
    <<"C", "r", "e", "d", "i", "t", " ", "P", "a", "y", "m", "e", "n", "t">>

UpperDirectDebit ==
    <<"D", "I", "R", "E", "C", "T", " ", "D", "E", "B", "I", "T">>

CounterCreditPayment ==
    <<"C", "o", "u", "n", "t", "e", "r", " ", "C", "r", "e", "d", "i", "t", " ", "P", "a", "y", "m", "e", "n", "t">>

DebitCardPurchase ==
    <<"D", "e", "b", "i", "t", " ", "C", "a", "r", "d", " ", "P", "u", "r", "c", "h", "a", "s", "e">>

----------------------------------------------------------------------------
(* Dates *)

IsLeapYear(y) ==
    (y % 4 = 0 /\ y % 100 # 0) \/ y % 400 = 0

DaysInMonth(y, m) ==
    IF m = 2 THEN (IF IsLeapYear(y) THEN 29 ELSE 28)
    ELSE IF m \in {4, 6, 9, 11} THEN 30
    ELSE 31

LeapDaysBefore(y) ==
    ((y - 1) \div 4) - ((y - 1) \div 100) + ((y - 1) \div 400)

RECURSIVE DaysBeforeMonth(_, _)
DaysBeforeMonth(y, m) ==
    IF m = 1 THEN 0 ELSE DaysBeforeMonth(y, m - 1) + DaysInMonth(y, m - 1)

\* Days from 1970-01-01 to the date
DayNumber(date) ==
    365 * (date[1] - 1970) + LeapDaysBefore(date[1]) - LeapDaysBefore(1970)
        + DaysBeforeMonth(date[1], date[2]) + (date[3] - 1)

\* parseISO(transaction_date).getTime(), in days instead of milliseconds: the
\* time of the start of the day (the product by 86400000 leaves the 32 bits
\* of the model checker's integers, and the code only subtracts the times)
GetTime(date) ==
    DayNumber(date)

\* Variant: getDay(), the day of the week (1970-01-01 was a Thursday)
GetDate_DayOfWeek(date) ==
    (DayNumber(date) + 4) % 7

\* parseISO(transaction_date).getDate()
GetDate(date) ==
    date[3]

----------------------------------------------------------------------------
(* Raw transactions *)

\* The fields of RawTransaction that the modelled code reads
RawTransaction(id, date, amount, memo, subcategory, override) ==
    [id |-> id, transaction_date |-> date, account |-> "Current Account",
     amount |-> amount, subcategory |-> subcategory,
     override_subcategory |-> override, memo |-> memo]

----------------------------------------------------------------------------
(* categorizeRawTransactions *)

\* Variants of the effective subcategory that the code does not compute:
\* the original first, the override by ?? and the override ignored
EffectiveSubcategory_OriginalFirst(transaction) ==
    Or(transaction.subcategory, transaction.override_subcategory)

EffectiveSubcategory_Nullish(transaction) ==
    IF transaction.override_subcategory # NoStr
    THEN transaction.override_subcategory
    ELSE transaction.subcategory

EffectiveSubcategory_NoOverride(transaction) ==
    transaction.subcategory

\* transaction.override_subcategory || transaction.subcategory
EffectiveSubcategory(transaction) ==
    Or(transaction.override_subcategory, transaction.subcategory)

\* effectiveSubcategory?.toLowerCase() || ''
LoweredSubcategory(effectiveSubcategory) ==
    IF effectiveSubcategory = NoStr THEN EmptyStr
    ELSE Or(ToLowerCase(effectiveSubcategory), EmptyStr)

BaseData(transaction) ==
    [id |-> transaction.id,
     transaction_date |-> transaction.transaction_date,
     amount |-> transaction.amount,
     memo |-> transaction.memo,
     subcategory |-> EffectiveSubcategory(transaction),
     account |-> transaction.account]

IsIncomeSubcategory(subcategory) ==
    Includes(subcategory, COUNTER_CREDIT)

IsOutgoingSubcategory(subcategory) ==
    \/ Includes(subcategory, DIRECT_DEBIT)
    \/ Includes(subcategory, BILL_PAYMENT)
    \/ Includes(subcategory, STANDING_ORDER)
    \/ Includes(subcategory, RECURRING_MONTHLY_PAYMENT)
    \/ Includes(subcategory, CREDIT_PAYMENT)

IsPurchaseSubcategory(subcategory) ==
    \/ Includes(subcategory, CARD_PURCHASE)
    \/ Includes(subcategory, DEBIT)

\* Variant: the purchase test is an if of its own, not an else-if
CategorizeOne_NoElse(acc, transaction) ==
    LET subcategory == LoweredSubcategory(EffectiveSubcategory(transaction))
        baseData == BaseData(transaction)
        first ==
            IF IsIncomeSubcategory(subcategory)
            THEN [acc EXCEPT !.income =
                      Append(@, baseData @@ [source |-> transaction.memo])]
            ELSE IF IsOutgoingSubcategory(subcategory)
            THEN [acc EXCEPT !.outgoings =
                      Append(@, baseData @@ [merchant |-> transaction.memo])]
            ELSE acc
    IN  IF IsPurchaseSubcategory(subcategory)
        THEN [first EXCEPT !.purchases =
                  Append(@, baseData @@ [merchant |-> transaction.memo])]
        ELSE first

\* Variant: the purchase test comes before the outgoing test
CategorizeOne_PurchaseFirst(acc, transaction) ==
    LET subcategory == LoweredSubcategory(EffectiveSubcategory(transaction))
        baseData == BaseData(transaction)
    IN  IF IsIncomeSubcategory(subcategory)
        THEN [acc EXCEPT !.income =
                  Append(@, baseData @@ [source |-> transaction.memo])]
        ELSE IF IsPurchaseSubcategory(subcategory)
        THEN [acc EXCEPT !.purchases =
                  Append(@, baseData @@ [merchant |-> transaction.memo])]
        ELSE IF IsOutgoingSubcategory(subcategory)
        THEN [acc EXCEPT !.outgoings =
                  Append(@, baseData @@ [merchant |-> transaction.memo])]
        ELSE acc

\* The body of the forEach callback: acc holds the three arrays built so far
CategorizeOne(acc, transaction) ==
    LET subcategory == LoweredSubcategory(EffectiveSubcategory(transaction))
        baseData == BaseData(transaction)
    IN  IF IsIncomeSubcategory(subcategory)
        THEN [acc EXCEPT !.income =
                  Append(@, baseData @@ [source |-> transaction.memo])]
        ELSE IF IsOutgoingSubcategory(subcategory)
        THEN [acc EXCEPT !.outgoings =
                  Append(@, baseData @@ [merchant |-> transaction.memo])]
        ELSE IF IsPurchaseSubcategory(subcategory)
        THEN [acc EXCEPT !.purchases =
                  Append(@, baseData @@ [merchant |-> transaction.memo])]
        ELSE acc

RECURSIVE CategorizeFrom(_, _, _)
CategorizeFrom(txns, i, acc) ==
    IF i > Len(txns) THEN acc
    ELSE CategorizeFrom(txns, i + 1, CategorizeOne(acc, txns[i]))

categorizeRawTransactions(txns) ==
    CategorizeFrom(txns, 1, [outgoings |-> <<>>, income |-> <<>>, purchases |-> <<>>])

----------------------------------------------------------------------------
(* Input sets *)

\* Subcategories and overrides tried on a direct call of the classifier
Subcategories ==
    {NoStr, EmptyStr, CounterCredit, DirectDebit, Debit, CardPurchase,
     BillPayment, StandingOrder, RecurringMonthlyPayment, CreditPayment,
     FundsTransfer, UpperDirectDebit, CounterCreditPayment}

Overrides ==
    {NoStr, EmptyStr, CounterCredit, DebitCardPurchase}

\* Subcategories of the rows of the backend table: row id of table k has
\* DbSubcategories[((id + k) % 3) + 1]
DbSubcategories ==
    <<DirectDebit, FundsTransfer, Debit>>

\* Values sent to PATCH /raw-transactions/{id}/override-type
OverrideValues ==
    {EmptyStr, CounterCredit, CardPurchase}

TxnDate(id) ==
    <<2024, 10 + (id % 2), 4 + id>>

TxnAmount(id) ==
    10 * id

TxnMemo(id) ==
    IF id % 2 = 1 THEN "ACME PAYROLL" ELSE "CITY COUNCIL"

FetchMonths ==
    {<<2024, 10>>, <<2024, 11>>}

FetchRanges ==
    {<<<<2024, 10, 1>>, <<2024, 11, 30>>>>}

ErrorMessages ==
    {"Network Error"}

----------------------------------------------------------------------------
(* Backend, as documented by the API *)

\* GET /raw-transactions/month/{year}/{month}
RowsOfMonth(rows, year, month) ==
    SelectSeq(rows, LAMBDA r :
        r.transaction_date[1] = year /\ r.transaction_date[2] = month)

\* GET /raw-transactions/date-range?start_date=..&end_date=..
RowsOfDateRange(rows, startDate, endDate) ==
    SelectSeq(rows, LAMBDA r :
        /\ DayNumber(startDate) <= DayNumber(r.transaction_date)
        /\ DayNumber(r.transaction_date) <= DayNumber(endDate))

\* PATCH /raw-transactions/{transaction_id}/override-type
UpdateTransactionType(transactionId, overrideSubcategory) ==
    /\ transactionId \in 1..Len(db)
    /\ db' = [db EXCEPT ![transactionId].override_subcategory = overrideSubcategory]
    /\ UNCHANGED <<requests, storeVars, classifyVars, balanceVars, recurringVars,
                   projectionVars, duplicateVars, overrideVars,
                   tableVars,
                   upcomingVars,
                   chart,
                   whileLoop>>

----------------------------------------------------------------------------
(* useBudgetData: fetchDataByMonth, fetchDataByDateRange *)

RECURSIVE SumAmounts(_)
\* list.reduce((sum, t) => sum + t.amount, 0)
SumAmounts(list) ==
    IF list = <<>> THEN 0 ELSE list[1].amount + SumAmounts(Tail(list))

\* Variant: the purchases are left out of the expenses
CalculateStats_NoPurchases(outgoingsData, incomeData, purchasesData) ==
    LET totalOutgoings == SumAmounts(outgoingsData)
        totalIncome == SumAmounts(incomeData)
        totalPurchases == SumAmounts(purchasesData)
        totalExpenses == totalOutgoings
    IN  [total_outgoings |-> totalOutgoings,
         total_purchases |-> totalPurchases,
         total_expenses |-> totalExpenses,
         total_income |-> totalIncome,
         net |-> totalIncome - totalExpenses,
         outgoing_count |-> Len(outgoingsData),
         purchase_count |-> Len(purchasesData),
         income_count |-> Len(incomeData)]

\* The object given to setStats
CalculateStats(outgoingsData, incomeData, purchasesData) ==
    LET totalOutgoings == SumAmounts(outgoingsData)
        totalIncome == SumAmounts(incomeData)
        totalPurchases == SumAmounts(purchasesData)
        totalExpenses == totalOutgoings + totalPurchases
    IN  [total_outgoings |-> totalOutgoings,
         total_purchases |-> totalPurchases,
         total_expenses |-> totalExpenses,
         total_income |-> totalIncome,
         net |-> totalIncome - totalExpenses,
         outgoing_count |-> Len(outgoingsData),
         purchase_count |-> Len(purchasesData),
         income_count |-> Len(incomeData)]

RemoveAt(seq, i) ==
    SubSeq(seq, 1, i - 1) \o SubSeq(seq, i + 1, Len(seq))

\* The try block after the await, then finally
StoreFetched(fetched) ==
    LET result == categorizeRawTransactions(fetched)
    IN  /\ rawTransactions' = fetched
        /\ outgoings' = result.outgoings
        /\ income' = result.income
        /\ purchases' = result.purchases
        /\ stats' = <<CalculateStats(result.outgoings, result.income, result.purchases)>>
        /\ loading' = FALSE
        /\ UNCHANGED error

\* The catch block, then finally
StoreFailed(errorMessage) ==
    /\ error' = <<errorMessage>>
    /\ loading' = FALSE
    /\ UNCHANGED <<rawTransactions, income, outgoings, purchases, stats>>

\* fetchDataByMonth up to its await
FetchDataByMonth(year, month) ==
    /\ Len(requests) < MaxRequests
    /\ loading' = TRUE
    /\ error' = <<>>
    /\ requests' = Append(requests, [kind |-> "month", year |-> year, month |-> month])
    /\ UNCHANGED <<db, rawTransactions, income, outgoings, purchases, stats,
                   classifyVars, balanceVars, recurringVars,
                   projectionVars, duplicateVars, overrideVars,
                   tableVars,
                   upcomingVars,
                   chart,
                   whileLoop>>

\* fetchDataByMonth after getRawTransactionsByMonth resolved
FetchDataByMonthResolved(i) ==
    /\ i \in 1..Len(requests)
    /\ requests[i].kind = "month"
    /\ StoreFetched(RowsOfMonth(db, requests[i].year, requests[i].month))
    /\ requests' = RemoveAt(requests, i)
    /\ UNCHANGED <<db, classifyVars, balanceVars, recurringVars,
                   projectionVars, duplicateVars, overrideVars,
                   tableVars,
                   upcomingVars,
                   chart,
                   whileLoop>>

\* fetchDataByMonth after getRawTransactionsByMonth rejected
FetchDataByMonthRejected(i, errorMessage) ==
    /\ i \in 1..Len(requests)
    /\ requests[i].kind = "month"
    /\ StoreFailed(errorMessage)
    /\ requests' = RemoveAt(requests, i)
    /\ UNCHANGED <<db, classifyVars, balanceVars, recurringVars,
                   projectionVars, duplicateVars, overrideVars,
                   tableVars,
                   upcomingVars,
                   chart,
                   whileLoop>>

\* fetchDataByDateRange up to its await
FetchDataByDateRange(startDate, endDate) ==
    /\ Len(requests) < MaxRequests
    /\ loading' = TRUE
    /\ error' = <<>>
    /\ requests' = Append(requests,
           [kind |-> "range", startDate |-> startDate, endDate |-> endDate])
    /\ UNCHANGED <<db, rawTransactions, income, outgoings, purchases, stats,
                   classifyVars, balanceVars, recurringVars,
                   projectionVars, duplicateVars, overrideVars,
                   tableVars,
                   upcomingVars,
                   chart,
                   whileLoop>>

\* fetchDataByDateRange after getRawTransactionsByDateRange resolved
FetchDataByDateRangeResolved(i) ==
    /\ i \in 1..Len(requests)
    /\ requests[i].kind = "range"
    /\ StoreFetched(RowsOfDateRange(db, requests[i].startDate, requests[i].endDate))
    /\ requests' = RemoveAt(requests, i)
    /\ UNCHANGED <<db, classifyVars, balanceVars, recurringVars,
                   projectionVars, duplicateVars, overrideVars,
                   tableVars,
                   upcomingVars,
                   chart,
                   whileLoop>>

\* fetchDataByDateRange after getRawTransactionsByDateRange rejected
FetchDataByDateRangeRejected(i, errorMessage) ==
    /\ i \in 1..Len(requests)
    /\ requests[i].kind = "range"
    /\ StoreFailed(errorMessage)
    /\ requests' = RemoveAt(requests, i)
    /\ UNCHANGED <<db, classifyVars, balanceVars, recurringVars,
                   projectionVars, duplicateVars, overrideVars,
                   tableVars,
                   upcomingVars,
                   chart,
                   whileLoop>>

----------------------------------------------------------------------------
(* State that a specification leaves in its initial value *)

\* No scheduled outgoing in the backend; the table component and the store
\* as they are created
NoScheduledOutgoings ==
    /\ scheduled = <<>>
    /\ cleanupCall = <<>>
    /\ cleaningDuplicates = FALSE
    /\ duplicateResult = <<>>
    /\ scheduledOutgoings = <<>>
    /\ outgoingsFetches = 0
    /\ cleanups = <<>>

\* The store's initial selection, and no change of type under way
NoSelection ==
    /\ typeChanges = <<>>
    /\ selectedMonth = <<>>
    /\ useDateRange = FALSE
    /\ dateRange = <<>>
    /\ updatingTransactionId = <<>>

\* The table of scheduled outgoings as it is created: useState(false),
\* useState(null) and the empty edit form
NoTable ==
    /\ importDialogOpen = FALSE
    /\ selectedTransaction = <<>>
    /\ saving = FALSE
    /\ deleting = <<>>
    /\ editingId = <<>>
    /\ editData = [day_of_month |-> 1, amount |-> <<>>, merchant |-> <<>>]
    /\ outgoingCalls = <<>>
    /\ submitted = <<>>

\* The dashboard's balance day and upcoming outgoings before it is mounted
NoUpcoming ==
    /\ balanceDayOfMonth = 1
    /\ upcomingOutgoings = 0
    /\ upcomingDeps = <<>>
    /\ rendered = <<>>

----------------------------------------------------------------------------
(* The dashboard over a backend table *)

\* The store's initialState
StoreInit ==
    /\ rawTransactions = <<>>
    /\ income = <<>>
    /\ outgoings = <<>>
    /\ purchases = <<>>
    /\ stats = <<>>
    /\ loading = FALSE
    /\ error = <<>>

Init ==
    /\ \E k \in 0..2 :
           db = [id \in 1..MaxTxns |->
                    RawTransaction(id, TxnDate(id), TxnAmount(id), TxnMemo(id),
                                   DbSubcategories[((id + k) % 3) + 1], NoStr)]
    /\ requests = <<>>
    /\ StoreInit
    /\ transactions = <<>>
    /\ categorized = <<>>
    /\ type = ""
    /\ recurring = <<>>
    /\ today = <<>>
    /\ calculation = <<>>
    /\ recurringCalc = <<>>
    /\ card = <<>>
    /\ NoScheduledOutgoings
    /\ NoSelection
    /\ balanceOverTime = <<>>
    /\ returned = <<>>
    /\ NoTable
    /\ NoUpcoming
    /\ chart = <<>>
    /\ whileLoop = <<>>

Next ==
    \/ \E id \in 1..MaxTxns, v \in OverrideValues : UpdateTransactionType(id, v)
    \/ \E ym \in FetchMonths : FetchDataByMonth(ym[1], ym[2])
    \/ \E i \in 1..MaxRequests : FetchDataByMonthResolved(i)
    \/ \E i \in 1..MaxRequests, m \in ErrorMessages : FetchDataByMonthRejected(i, m)
    \/ \E r \in FetchRanges : FetchDataByDateRange(r[1], r[2])
    \/ \E i \in 1..MaxRequests : FetchDataByDateRangeResolved(i)
    \/ \E i \in 1..MaxRequests, m \in ErrorMessages : FetchDataByDateRangeRejected(i, m)

Spec ==
    Init /\ [][Next]_vars

----------------------------------------------------------------------------
(* A change of type in the transactions table, and the fetches it starts.
   A request is answered by the backend at some moment between its sending
   and the arrival of the answer, and answers arrive in any order. *)

\* Requests of the client (changes of type and fetches) under way at once
MaxInFlight == 2

\* The types offered by the table's select that are tried
TableTypes ==
    {CounterCredit, CardPurchase}

\* The request of fetchDataByMonth or fetchDataByDateRange, not yet answered
MonthRequest(year, month) ==
    [kind |-> "month", year |-> year, month |-> month, answer |-> <<>>]

DateRangeRequest(startDate, endDate) ==
    [kind |-> "range", startDate |-> startDate, endDate |-> endDate, answer |-> <<>>]

\* The rows the backend answers a request with
RowsOfRequest(rows, request) ==
    IF request.kind = "month"
    THEN RowsOfMonth(rows, request.year, request.month)
    ELSE RowsOfDateRange(rows, request.startDate, request.endDate)

\* handleTransactionUpdate: fetchDataByDateRange or fetchDataByMonth, each up
\* to its await
HandleTransactionUpdate ==
    IF useDateRange /\ dateRange # <<>>
    THEN /\ loading' = TRUE
         /\ error' = <<>>
         /\ requests' = Append(requests,
                DateRangeRequest(dateRange[1].startDate, dateRange[1].endDate))
    ELSE IF selectedMonth # <<>>
    THEN /\ loading' = TRUE
         /\ error' = <<>>
         /\ requests' = Append(requests,
                MonthRequest(selectedMonth[1].year, selectedMonth[1].month))
    ELSE UNCHANGED <<requests, loading, error>>

\* The dashboard shows the table: it is past its loading and error screens
TableShown ==
    /\ ~(loading /\ stats = <<>>)
    /\ error = <<>>

\* handleTypeChange up to its await, on a row of the table that is enabled
HandleTypeChange(transactionId, newType) ==
    /\ TableShown
    /\ \E i \in 1..Len(rawTransactions) : rawTransactions[i].id = transactionId
    /\ updatingTransactionId # <<transactionId>>
    /\ Len(typeChanges) + Len(requests) < MaxInFlight
    /\ updatingTransactionId' = <<transactionId>>
    /\ typeChanges' = Append(typeChanges,
           [id |-> transactionId, newType |-> newType, applied |-> FALSE])
    /\ UNCHANGED <<db, requests, storeVars, selectedMonth, useDateRange, dateRange,
                   classifyVars, balanceVars, recurringVars, projectionVars,
                   duplicateVars,
                   tableVars,
                   upcomingVars,
                   chart,
                   whileLoop>>

\* PATCH /raw-transactions/{transaction_id}/override-type reaches the backend
OverrideTypeApplied(i) ==
    /\ i \in 1..Len(typeChanges)
    /\ ~typeChanges[i].applied
    /\ db' = [db EXCEPT ![typeChanges[i].id].override_subcategory = typeChanges[i].newType]
    /\ typeChanges' = [typeChanges EXCEPT ![i].applied = TRUE]
    /\ UNCHANGED <<requests, storeVars, selectedMonth, useDateRange, dateRange,
                   updatingTransactionId, classifyVars, balanceVars, recurringVars,
                   projectionVars, duplicateVars,
                   tableVars,
                   upcomingVars,
                   chart,
                   whileLoop>>

\* handleTypeChange after updateTransactionType resolved: onTransactionUpdate,
\* and finally
HandleTypeChangeResolved(i) ==
    /\ i \in 1..Len(typeChanges)
    /\ typeChanges[i].applied
    /\ HandleTransactionUpdate
    /\ updatingTransactionId' = <<>>
    /\ typeChanges' = RemoveAt(typeChanges, i)
    /\ UNCHANGED <<db, rawTransactions, income, outgoings, purchases, stats,
                   selectedMonth, useDateRange, dateRange, classifyVars, balanceVars,
                   recurringVars, projectionVars, duplicateVars,
                   tableVars,
                   upcomingVars,
                   chart,
                   whileLoop>>

\* handleTypeChange after updateTransactionType rejected: the catch block
\* logs the error, and finally
HandleTypeChangeRejected(i) ==
    /\ i \in 1..Len(typeChanges)
    /\ ~typeChanges[i].applied
    /\ updatingTransactionId' = <<>>
    /\ typeChanges' = RemoveAt(typeChanges, i)
    /\ UNCHANGED <<db, requests, storeVars, selectedMonth, useDateRange, dateRange,
                   classifyVars, balanceVars, recurringVars, projectionVars,
                   duplicateVars,
                   tableVars,
                   upcomingVars,
                   chart,
                   whileLoop>>

\* handleMonthChange, and the effect on the selected month that follows it
HandleMonthChange(year, month) ==
    /\ TableShown
    /\ ~(useDateRange /\ dateRange # <<>>) /\ selectedMonth # <<>>
    /\ selectedMonth # <<[year |-> year, month |-> month]>>
    /\ Len(typeChanges) + Len(requests) < MaxInFlight
    /\ selectedMonth' = <<[year |-> year, month |-> month]>>
    /\ IF ~useDateRange
       THEN /\ loading' = TRUE
            /\ error' = <<>>
            /\ requests' = Append(requests, MonthRequest(year, month))
       ELSE UNCHANGED <<requests, loading, error>>
    /\ UNCHANGED <<db, rawTransactions, income, outgoings, purchases, stats,
                   typeChanges, useDateRange, dateRange, updatingTransactionId,
                   classifyVars, balanceVars, recurringVars, projectionVars,
                   duplicateVars,
                   tableVars,
                   upcomingVars,
                   chart,
                   whileLoop>>

\* The backend reads the rows a fetch asked for
RawTransactionsRead(i) ==
    /\ i \in 1..Len(requests)
    /\ requests[i].answer = <<>>
    /\ requests' = [requests EXCEPT ![i].answer = <<RowsOfRequest(db, requests[i])>>]
    /\ UNCHANGED <<db, storeVars, overrideVars, classifyVars, balanceVars,
                   recurringVars, projectionVars, duplicateVars,
                   tableVars,
                   upcomingVars,
                   chart,
                   whileLoop>>

\* fetchDataByMonth or fetchDataByDateRange after its request resolved
RawTransactionsResolved(i) ==
    /\ i \in 1..Len(requests)
    /\ requests[i].answer # <<>>
    /\ StoreFetched(requests[i].answer[1])
    /\ requests' = RemoveAt(requests, i)
    /\ UNCHANGED <<db, overrideVars, classifyVars, balanceVars, recurringVars,
                   projectionVars, duplicateVars,
                   tableVars,
                   upcomingVars,
                   chart,
                   whileLoop>>

\* fetchDataByMonth or fetchDataByDateRange after its request rejected
RawTransactionsRejected(i, errorMessage) ==
    /\ i \in 1..Len(requests)
    /\ StoreFailed(errorMessage)
    /\ requests' = RemoveAt(requests, i)
    /\ UNCHANGED <<db, overrideVars, classifyVars, balanceVars, recurringVars,
                   projectionVars, duplicateVars,
                   tableVars,
                   upcomingVars,
                   chart,
                   whileLoop>>

\* The dashboard is mounted with a selection, and the effect of the selection
\* has called its fetch
InitOverride ==
    /\ \E k \in 0..2 :
           db = [id \in 1..MaxTxns |->
                    RawTransaction(id, TxnDate(id), TxnAmount(id), TxnMemo(id),
                                   DbSubcategories[((id + k) % 3) + 1], NoStr)]
    /\ \E ym \in FetchMonths : selectedMonth = <<[year |-> ym[1], month |-> ym[2]]>>
    /\ \/ /\ useDateRange = FALSE
          /\ dateRange = <<>>
          /\ requests = <<MonthRequest(selectedMonth[1].year, selectedMonth[1].month)>>
       \/ /\ useDateRange = TRUE
          /\ \E r \in FetchRanges : dateRange = <<[startDate |-> r[1], endDate |-> r[2]]>>
          /\ requests = <<DateRangeRequest(dateRange[1].startDate, dateRange[1].endDate)>>
    /\ typeChanges = <<>>
    /\ updatingTransactionId = <<>>
    /\ rawTransactions = <<>>
    /\ income = <<>>
    /\ outgoings = <<>>
    /\ purchases = <<>>
    /\ stats = <<>>
    /\ loading = TRUE
    /\ error = <<>>
    /\ transactions = <<>>
    /\ categorized = <<>>
    /\ type = ""
    /\ recurring = <<>>
    /\ balanceOverTime = <<>>
    /\ returned = <<>>
    /\ today = <<>>
    /\ calculation = <<>>
    /\ recurringCalc = <<>>
    /\ card = <<>>
    /\ NoScheduledOutgoings
    /\ NoTable
    /\ NoUpcoming
    /\ chart = <<>>
    /\ whileLoop = <<>>

NextOverride ==
    \/ \E id \in 1..MaxTxns, newType \in TableTypes : HandleTypeChange(id, newType)
    \/ \E i \in 1..MaxInFlight : OverrideTypeApplied(i)
    \/ \E i \in 1..MaxInFlight : HandleTypeChangeResolved(i)
    \/ \E i \in 1..MaxInFlight : HandleTypeChangeRejected(i)
    \/ \E ym \in FetchMonths : HandleMonthChange(ym[1], ym[2])
    \/ \E i \in 1..MaxInFlight : RawTransactionsRead(i)
    \/ \E i \in 1..MaxInFlight : RawTransactionsResolved(i)
    \/ \E i \in 1..MaxInFlight, m \in ErrorMessages : RawTransactionsRejected(i, m)

SpecOverride ==
    InitOverride /\ [][NextOverride]_vars

----------------------------------------------------------------------------
(* A direct call of categorizeRawTransactions on any input *)

InitClassify ==
    /\ \E n \in 0..MaxTxns :
       \E subs \in [1..n -> Subcategories], ovs \in [1..n -> Overrides] :
           transactions = [id \in 1..n |->
                              RawTransaction(id, TxnDate(id), TxnAmount(id), TxnMemo(id),
                                             subs[id], ovs[id])]
    /\ categorized = <<>>
    /\ type = ""
    /\ recurring = <<>>
    /\ today = <<>>
    /\ calculation = <<>>
    /\ recurringCalc = <<>>
    /\ card = <<>>
    /\ NoScheduledOutgoings
    /\ NoSelection
    /\ db = <<>>
    /\ requests = <<>>
    /\ StoreInit
    /\ balanceOverTime = <<>>
    /\ returned = <<>>
    /\ NoTable
    /\ NoUpcoming
    /\ chart = <<>>
    /\ whileLoop = <<>>

CategorizeCall ==
    /\ categorized = <<>>
    /\ categorized' = <<categorizeRawTransactions(transactions)>>
    /\ UNCHANGED <<db, requests, storeVars, transactions, balanceVars, recurringVars,
                   projectionVars, duplicateVars, overrideVars,
                   tableVars,
                   upcomingVars,
                   chart,
                   whileLoop>>

NextClassify ==
    CategorizeCall

SpecClassify ==
    InitClassify /\ [][NextClassify]_vars

----------------------------------------------------------------------------
(* calculateBalanceOverTime *)

\* Variant: an outgoing adds its amount
OutgoingEvent_Unsigned(t) ==
    [transaction_date |-> t.transaction_date, type |-> "outgoing", amount |-> t.amount]

\* { ...t, type: 'income', amount: t.amount }: the fields read afterwards
IncomeEvent(t) ==
    [transaction_date |-> t.transaction_date, type |-> "income", amount |-> t.amount]

\* { ...t, type: 'outgoing', amount: -t.amount }
OutgoingEvent(t) ==
    [transaction_date |-> t.transaction_date, type |-> "outgoing", amount |-> 0 - t.amount]

\* { ...t, type: 'purchase', amount: -t.amount }
PurchaseEvent(t) ==
    [transaction_date |-> t.transaction_date, type |-> "purchase", amount |-> 0 - t.amount]

\* The new array allTransactions
AllTransactions(incomeList, outgoingList, purchaseList) ==
    [i \in 1..Len(incomeList) |-> IncomeEvent(incomeList[i])]
        \o [i \in 1..Len(outgoingList) |-> OutgoingEvent(outgoingList[i])]
        \o [i \in 1..Len(purchaseList) |-> PurchaseEvent(purchaseList[i])]

\* The comparator given to sort
CompareByDate(a, b) ==
    GetTime(a.transaction_date) - GetTime(b.transaction_date)

RECURSIVE InsertByDate_BeforeEqual(_, _)
\* Variant: an element goes before the elements that compare equal to it
InsertByDate_BeforeEqual(sorted, e) ==
    IF sorted = <<>> THEN <<e>>
    ELSE IF CompareByDate(Head(sorted), e) < 0
         THEN <<Head(sorted)>> \o InsertByDate_BeforeEqual(Tail(sorted), e)
         ELSE <<e>> \o sorted

RECURSIVE InsertByDate(_, _)
\* Array.prototype.sort is stable: an element goes after the elements that
\* compare less than or equal to it
InsertByDate(sorted, e) ==
    IF sorted = <<>> THEN <<e>>
    ELSE IF CompareByDate(Head(sorted), e) <= 0
         THEN <<Head(sorted)>> \o InsertByDate(Tail(sorted), e)
         ELSE <<e>> \o sorted

RECURSIVE SortByDate(_)
\* allTransactions.sort((a, b) => parseISO(a...).getTime() - parseISO(b...).getTime())
SortByDate(list) ==
    IF list = <<>> THEN <<>>
    ELSE InsertByDate(SortByDate(SubSeq(list, 1, Len(list) - 1)), list[Len(list)])

\* Variant: the sort runs on the argument arrays themselves
ArgumentsAfterCall_SortedInPlace(incomeList, outgoingList, purchaseList) ==
    <<SortByDate(incomeList), SortByDate(outgoingList), SortByDate(purchaseList)>>

\* The three argument arrays when the call returns: sort works in place, on
\* the new array allTransactions, and nothing writes to the arguments
ArgumentsAfterCall(incomeList, outgoingList, purchaseList) ==
    <<incomeList, outgoingList, purchaseList>>

\* Variant: the running balance is kept from the call before
InitialBalance_Carried(startingBalance) ==
    IF balanceOverTime = <<>> \/ balanceOverTime[1].series = <<>>
    THEN startingBalance
    ELSE balanceOverTime[1].series[Len(balanceOverTime[1].series)].balance

\* let currentBalance = startingBalance
InitialBalance(startingBalance) ==
    startingBalance

RECURSIVE RunningBalance(_, _)
\* The forEach that pushes one point per transaction
RunningBalance(sorted, currentBalance) ==
    IF sorted = <<>> THEN <<>>
    ELSE <<[date |-> Head(sorted).transaction_date,
            balance |-> currentBalance + Head(sorted).amount]>>
             \o RunningBalance(Tail(sorted), currentBalance + Head(sorted).amount)

calculateBalanceOverTime(incomeList, outgoingList, purchaseList, startingBalance) ==
    RunningBalance(SortByDate(AllTransactions(incomeList, outgoingList, purchaseList)),
                   InitialBalance(startingBalance))

\* Dates, amounts and starting balances tried
EventDates ==
    {<<2023, 12, 31>>, <<2024, 1, 1>>, <<2024, 1, 2>>}

EventAmounts ==
    {30, 50}

StartingBalances ==
    {0, 100}

\* A categorized transaction of the store, as far as the calculations read it
Transaction(id, date, amount) ==
    [id |-> id, transaction_date |-> date, amount |-> amount,
     memo |-> TxnMemo(id), account |-> "Current Account"]

\* The lists of n transactions with ids first..first+n-1
TransactionLists(first, n) ==
    {[i \in 1..n |-> Transaction(first + i - 1, dates[i], amounts[i])] :
        dates \in [1..n -> EventDates], amounts \in [1..n -> EventAmounts]}

\* One call, as the dashboard makes it on the lists of the store
CalculateBalanceOverTimeCall(startingBalance) ==
    LET series == calculateBalanceOverTime(income, outgoings, purchases, startingBalance)
        after == ArgumentsAfterCall(income, outgoings, purchases)
    IN  /\ Len(returned) < MaxCalls
        /\ balanceOverTime' = <<[startingBalance |-> startingBalance, series |-> series]>>
        /\ returned' = Append(returned,
               [arguments |-> <<income, outgoings, purchases, startingBalance>>,
                series |-> series])
        /\ income' = after[1]
        /\ outgoings' = after[2]
        /\ purchases' = after[3]
        /\ UNCHANGED <<db, requests, rawTransactions, stats, loading, error, classifyVars,
                       recurringVars,
                   projectionVars, duplicateVars, overrideVars,
                   tableVars,
                   upcomingVars,
                   chart,
                   whileLoop>>

InitBalance ==
    /\ \E ni \in 0..MaxEvents :
       \E no \in 0..(MaxEvents - ni) :
       \E np \in 0..(MaxEvents - ni - no) :
           /\ income \in TransactionLists(1, ni)
           /\ outgoings \in TransactionLists(ni + 1, no)
           /\ purchases \in TransactionLists(ni + no + 1, np)
    /\ balanceOverTime = <<>>
    /\ returned = <<>>
    /\ db = <<>>
    /\ requests = <<>>
    /\ rawTransactions = <<>>
    /\ stats = <<>>
    /\ loading = FALSE
    /\ error = <<>>
    /\ transactions = <<>>
    /\ categorized = <<>>
    /\ type = ""
    /\ recurring = <<>>
    /\ today = <<>>
    /\ calculation = <<>>
    /\ recurringCalc = <<>>
    /\ card = <<>>
    /\ NoScheduledOutgoings
    /\ NoSelection
    /\ NoTable
    /\ NoUpcoming
    /\ chart = <<>>
    /\ whileLoop = <<>>

NextBalance ==
    \E startingBalance \in StartingBalances : CalculateBalanceOverTimeCall(startingBalance)

SpecBalance ==
    InitBalance /\ [][NextBalance]_vars

----------------------------------------------------------------------------
(* identifyRecurringTransactions *)

RECURSIVE GCD(_, _)
GCD(a, b) ==
    IF b = 0 THEN a ELSE GCD(b, a % b)

\* The number n / d (d > 0, n >= 0), kept exact as a fraction in lowest terms
Quotient(n, d) ==
    [num |-> n \div GCD(n, d), den |-> d \div GCD(n, d)]

\* An optional string field (source, merchant, memo): '' when it is missing
FieldOrEmpty(transaction, field) ==
    IF field \in DOMAIN transaction THEN transaction[field] ELSE ""

getTransactionDescription(transaction, kind) ==
    IF kind = "income"
    THEN IF FieldOrEmpty(transaction, "source") # "" THEN transaction.source
         ELSE IF FieldOrEmpty(transaction, "memo") # "" THEN transaction.memo
         ELSE "Income"
    ELSE IF kind = "outgoing" \/ kind = "purchase"
    THEN IF FieldOrEmpty(transaction, "merchant") # "" THEN transaction.merchant
         ELSE IF FieldOrEmpty(transaction, "memo") # "" THEN transaction.memo
         ELSE "Expense"
    ELSE "Transaction"

\* One step of the forEach that fills groupedByDay; the Map is the sequence of
\* its entries in insertion order
AddToGroup(groupedByDay, transaction) ==
    LET dayOfMonth == GetDate(transaction.transaction_date)
    IN  IF \E g \in 1..Len(groupedByDay) : groupedByDay[g].day = dayOfMonth
        THEN [g \in 1..Len(groupedByDay) |->
                 IF groupedByDay[g].day = dayOfMonth
                 THEN [groupedByDay[g] EXCEPT !.group = Append(@, transaction)]
                 ELSE groupedByDay[g]]
        ELSE Append(groupedByDay, [day |-> dayOfMonth, group |-> <<transaction>>])

RECURSIVE GroupByDay(_)
GroupByDay(txns) ==
    IF txns = <<>> THEN <<>>
    ELSE AddToGroup(GroupByDay(SubSeq(txns, 1, Len(txns) - 1)), txns[Len(txns)])

\* Variant: the sum of a group is divided by the number of all transactions
AverageAmount_OverAll(transactionGroup, txns) ==
    Quotient(SumAmounts(transactionGroup), Len(txns))

\* transactionGroup.reduce((sum, t) => sum + t.amount, 0) / transactionGroup.length
AverageAmount(transactionGroup, txns) ==
    Quotient(SumAmounts(transactionGroup), Len(transactionGroup))

RECURSIVE RecurringPatterns_EveryGroup(_, _, _)
\* Variant: every group gives an entry, a group of one included
RecurringPatterns_EveryGroup(groupedByDay, txns, kind) ==
    IF groupedByDay = <<>> THEN <<>>
    ELSE LET transactionGroup == Head(groupedByDay).group
         IN  <<[amount |-> AverageAmount(transactionGroup, txns),
                dayOfMonth |-> Head(groupedByDay).day,
                description |-> getTransactionDescription(transactionGroup[1], kind),
                type |-> kind]>>
             \o RecurringPatterns_EveryGroup(Tail(groupedByDay), txns, kind)

RECURSIVE RecurringPatterns(_, _, _)
\* groupedByDay.forEach: one entry per group of two or more
RecurringPatterns(groupedByDay, txns, kind) ==
    IF groupedByDay = <<>> THEN <<>>
    ELSE LET transactionGroup == Head(groupedByDay).group
             rest == RecurringPatterns(Tail(groupedByDay), txns, kind)
         IN  IF Len(transactionGroup) >= 2
             THEN <<[amount |-> AverageAmount(transactionGroup, txns),
                     dayOfMonth |-> Head(groupedByDay).day,
                     description |-> getTransactionDescription(transactionGroup[1], kind),
                     type |-> kind]>> \o rest
             ELSE rest

\* The fallback: every transaction as an entry of its own
AllAsRecurring(txns, kind) ==
    [i \in 1..Len(txns) |->
        [amount |-> Quotient(txns[i].amount, 1),
         dayOfMonth |-> GetDate(txns[i].transaction_date),
         description |-> getTransactionDescription(txns[i], kind),
         type |-> kind]]

\* Variant: without the fallback, the patterns are returned as they are
identifyRecurringTransactions_NoFallback(txns, kind) ==
    IF Len(txns) = 0 THEN <<>>
    ELSE RecurringPatterns(GroupByDay(txns), txns, kind)

identifyRecurringTransactions(txns, kind) ==
    IF Len(txns) = 0 THEN <<>>
    ELSE LET patterns == RecurringPatterns(GroupByDay(txns), txns, kind)
         IN  IF Len(patterns) = 0 /\ Len(txns) > 0
             THEN AllAsRecurring(txns, kind)
             ELSE patterns

\* Dates and amounts tried: two months with the same day number, and another day
RecurringDates ==
    {<<2024, 1, 5>>, <<2024, 2, 5>>, <<2024, 1, 17>>}

RecurringAmounts ==
    {10, 25}

RecurringTypes ==
    {"income", "outgoing", "purchase"}

\* A categorized transaction of the given type, as categorizeRawTransactions
\* builds it: source or merchant is the memo (empty for every third id)
TypedTransaction(id, date, amount, kind) ==
    LET memo == IF id % 3 = 0 THEN "" ELSE TxnMemo(id)
        base == [id |-> id, transaction_date |-> date, amount |-> amount,
                 memo |-> memo, account |-> "Current Account"]
    IN  IF kind = "income" THEN base @@ [source |-> memo]
        ELSE base @@ [merchant |-> memo]

InitRecurring ==
    /\ type \in RecurringTypes
    /\ \E n \in 0..MaxRecurring :
       \E dates \in [1..n -> RecurringDates], amounts \in [1..n -> RecurringAmounts] :
           transactions = [i \in 1..n |-> TypedTransaction(i, dates[i], amounts[i], type)]
    /\ recurring = <<>>
    /\ today = <<>>
    /\ calculation = <<>>
    /\ recurringCalc = <<>>
    /\ card = <<>>
    /\ NoScheduledOutgoings
    /\ NoSelection
    /\ categorized = <<>>
    /\ balanceOverTime = <<>>
    /\ returned = <<>>
    /\ db = <<>>
    /\ requests = <<>>
    /\ StoreInit
    /\ NoTable
    /\ NoUpcoming
    /\ chart = <<>>
    /\ whileLoop = <<>>

IdentifyRecurringTransactionsCall ==
    /\ recurring = <<>>
    /\ recurring' = <<identifyRecurringTransactions(transactions, type)>>
    /\ UNCHANGED <<db, requests, storeVars, transactions, categorized, type, balanceVars,
                   projectionVars, duplicateVars,
                   overrideVars,
                   tableVars,
                   upcomingVars,
                   chart,
                   whileLoop>>

NextRecurring ==
    IdentifyRecurringTransactionsCall

SpecRecurring ==
    InitRecurring /\ [][NextRecurring]_vars

----------------------------------------------------------------------------
(* calculateRecurringTransactions and the card that shows its result *)

\* Entries of the income list, and of each of the two expense lists, given to
\* calculateRecurringTransactions
MaxIncomes == 2

MaxExpenses == 1

\* Variant: the comparator sorts ascending
CompareByAmount_Ascending(a, b) ==
    a.amount - b.amount

\* (a, b) => b.amount - a.amount
CompareByAmount(a, b) ==
    b.amount - a.amount

RECURSIVE InsertByAmount(_, _)
\* Array.prototype.sort is stable: an element goes after the elements that
\* compare less than or equal to it
InsertByAmount(sorted, e) ==
    IF sorted = <<>> THEN <<e>>
    ELSE IF CompareByAmount(Head(sorted), e) <= 0
         THEN <<Head(sorted)>> \o InsertByAmount(Tail(sorted), e)
         ELSE <<e>> \o sorted

RECURSIVE SortByAmount(_)
\* [...income].sort((a, b) => b.amount - a.amount)
SortByAmount(list) ==
    IF list = <<>> THEN <<>>
    ELSE InsertByAmount(SortByAmount(SubSeq(list, 1, Len(list) - 1)), list[Len(list)])

\* Variant: sort runs on the income argument itself
IncomeAfterCall_SortedInPlace(incomeList) ==
    SortByAmount(incomeList)

\* The income argument when the call returns: the sort works on a copy
IncomeAfterCall(incomeList) ==
    incomeList

\* const biggestIncome = sortedIncome[0], undefined for an empty array
BiggestIncome(incomeList) ==
    IF SortByAmount(incomeList) = <<>> THEN <<>> ELSE <<SortByAmount(incomeList)[1]>>

\* Variant: addMonths that gives back its argument
AddMonths_SameDate(date, amount) ==
    date

\* addMonths of date-fns: the same day number in the month that is `amount`
\* months later, or the last day of that month when it is shorter
AddMonths(date, amount) ==
    LET months == (date[2] - 1) + amount
        year == date[1] + (months \div 12)
        month == (months % 12) + 1
        daysInMonth == DaysInMonth(year, month)
    IN  <<year, month, IF date[3] >= daysInMonth THEN daysInMonth ELSE date[3]>>

RECURSIVE NextIncomeDate(_, _)
\* while (nextIncomeDate <= today) nextIncomeDate = addMonths(nextIncomeDate, 1):
\* nextIncomeDate is the start of its day, today a moment of the current day
NextIncomeDate(nextIncomeDate, now) ==
    IF GetTime(nextIncomeDate) <= GetTime(now)
    THEN NextIncomeDate(AddMonths(nextIncomeDate, 1), now)
    ELSE nextIncomeDate

\* Variant: the purchases are left out of the expenses
TotalExpenses_NoPurchases(totalMonthlyOutgoings, totalMonthlyPurchases) ==
    totalMonthlyOutgoings

\* const totalExpenses = totalMonthlyOutgoings + totalMonthlyPurchases
TotalExpenses(totalMonthlyOutgoings, totalMonthlyPurchases) ==
    totalMonthlyOutgoings + totalMonthlyPurchases

\* Variant: the totals are computed before the test of biggestIncome
EmptyIncomeResult_TotalsFirst(outgoingList, purchaseList) ==
    [nextIncomeDate |-> <<>>,
     totalMonthlyIncome |-> 0,
     totalMonthlyOutgoings |-> SumAmounts(outgoingList),
     totalMonthlyPurchases |-> SumAmounts(purchaseList),
     projectedBalance |-> 0 - TotalExpenses(SumAmounts(outgoingList), SumAmounts(purchaseList)),
     savingsPerMonth |-> 0 - TotalExpenses(SumAmounts(outgoingList), SumAmounts(purchaseList))]

\* The value returned when there is no biggestIncome
EmptyIncomeResult(outgoingList, purchaseList) ==
    [nextIncomeDate |-> <<>>,
     totalMonthlyIncome |-> 0,
     totalMonthlyOutgoings |-> 0,
     totalMonthlyPurchases |-> 0,
     projectedBalance |-> 0,
     savingsPerMonth |-> 0]

calculateRecurringTransactions(incomeList, outgoingList, purchaseList, now) ==
    IF BiggestIncome(incomeList) = <<>>
    THEN EmptyIncomeResult(outgoingList, purchaseList)
    ELSE LET biggestIncome == BiggestIncome(incomeList)[1]
             incomeDate == biggestIncome.transaction_date
             totalMonthlyIncome == SumAmounts(incomeList)
             totalMonthlyOutgoings == SumAmounts(outgoingList)
             totalMonthlyPurchases == SumAmounts(purchaseList)
             totalExpenses == TotalExpenses(totalMonthlyOutgoings, totalMonthlyPurchases)
             projectedBalance == totalMonthlyIncome - totalExpenses
         IN  [nextIncomeDate |-> <<NextIncomeDate(incomeDate, now)>>,
              totalMonthlyIncome |-> totalMonthlyIncome,
              totalMonthlyOutgoings |-> totalMonthlyOutgoings,
              totalMonthlyPurchases |-> totalMonthlyPurchases,
              projectedBalance |-> projectedBalance,
              savingsPerMonth |-> projectedBalance]

\* const difference = data.totalMonthlyIncome - data.totalMonthlyOutgoings
Difference(data) ==
    data.totalMonthlyIncome - data.totalMonthlyOutgoings

\* What the card shows of the data it is given
RecurringTransactionsCard(data) ==
    [difference |-> Difference(data),
     isPositive |-> Difference(data) >= 0,
     nextIncome |-> data.nextIncomeDate]

\* Pay days, amounts and current days tried: a pay day at the end of a long
\* month, and current days before, on and months after it
PayDates ==
    {<<2023, 12, 30>>, <<2024, 1, 31>>, <<2024, 3, 15>>}

PayAmounts ==
    {50, 100}

ExpenseDates ==
    {<<2024, 1, 15>>}

ExpenseAmounts ==
    {20, 30}

Todays ==
    {<<2024, 1, 10>>, <<2024, 1, 31>>, <<2024, 3, 15>>, <<2024, 4, 30>>}

\* The lists of n transactions with ids first..first+n-1, of the given dates
\* and amounts
ListsOver(first, n, dateSet, amountSet) ==
    {[i \in 1..n |-> Transaction(first + i - 1, dates[i], amounts[i])] :
        dates \in [1..n -> dateSet], amounts \in [1..n -> amountSet]}

\* useRecurringCalculations: useMemo calls calculateRecurringTransactions on
\* the lists of the store, once for each value of the lists
UseRecurringCalculations ==
    /\ calculation = <<>>
    /\ calculation' =
           <<[arguments |-> <<income, outgoings, purchases>>,
              biggestIncome |-> BiggestIncome(income),
              value |-> calculateRecurringTransactions(income, outgoings, purchases, today)]>>
    /\ income' = IncomeAfterCall(income)
    /\ UNCHANGED <<db, requests, rawTransactions, outgoings, purchases, stats, loading,
                   error, classifyVars, balanceVars, recurringVars, duplicateVars,
                   overrideVars, today,
                   recurringCalc, card,
                   tableVars,
                   upcomingVars,
                   chart,
                   whileLoop>>

\* The dashboard's effect on [income, outgoings, purchases]: it runs once for
\* each value of the lists, and calls only when some list is not empty
RecurringCalcEffect ==
    /\ recurringCalc = <<>>
    /\ Len(income) > 0 \/ Len(outgoings) > 0 \/ Len(purchases) > 0
    /\ recurringCalc' =
           <<calculateRecurringTransactions(income, outgoings, purchases, today)>>
    /\ income' = IncomeAfterCall(income)
    /\ UNCHANGED <<db, requests, rawTransactions, outgoings, purchases, stats, loading,
                   error, classifyVars, balanceVars, recurringVars, duplicateVars,
                   overrideVars, today,
                   calculation, card,
                   tableVars,
                   upcomingVars,
                   chart,
                   whileLoop>>

\* {recurringCalc && <RecurringTransactionsCard data={recurringCalc} />}
RenderRecurringTransactionsCard ==
    /\ recurringCalc # <<>>
    /\ card' = <<RecurringTransactionsCard(recurringCalc[1])>>
    /\ UNCHANGED <<db, requests, storeVars, classifyVars, balanceVars, recurringVars,
                   duplicateVars, overrideVars, today, calculation, recurringCalc,
                   tableVars,
                   upcomingVars,
                   chart,
                   whileLoop>>

InitProjection ==
    /\ \E ni \in 0..MaxIncomes, no \in 0..MaxExpenses, np \in 0..MaxExpenses :
           /\ income \in ListsOver(1, ni, PayDates, PayAmounts)
           /\ outgoings \in ListsOver(ni + 1, no, ExpenseDates, ExpenseAmounts)
           /\ purchases \in ListsOver(ni + no + 1, np, ExpenseDates, ExpenseAmounts)
    /\ today \in Todays
    /\ calculation = <<>>
    /\ recurringCalc = <<>>
    /\ card = <<>>
    /\ NoScheduledOutgoings
    /\ NoSelection
    /\ db = <<>>
    /\ requests = <<>>
    /\ rawTransactions = <<>>
    /\ stats = <<>>
    /\ loading = FALSE
    /\ error = <<>>
    /\ transactions = <<>>
    /\ categorized = <<>>
    /\ type = ""
    /\ recurring = <<>>
    /\ balanceOverTime = <<>>
    /\ returned = <<>>
    /\ NoTable
    /\ NoUpcoming
    /\ chart = <<>>
    /\ whileLoop = <<>>

NextProjection ==
    \/ UseRecurringCalculations
    \/ RecurringCalcEffect
    \/ RenderRecurringTransactionsCard

SpecProjection ==
    InitProjection /\ [][NextProjection]_vars

----------------------------------------------------------------------------
(* The while loop of calculateRecurringTransactions, one step at a time *)

\* What the steps of the loop leave alone
loopFrame ==
    <<db, requests, storeVars, classifyVars, balanceVars, recurringVars,
      projectionVars, duplicateVars, overrideVars, tableVars, upcomingVars, chart>>

\* let nextIncomeDate = new Date(incomeDate), past the return for no
\* biggestIncome
LetNextIncomeDate ==
    /\ whileLoop = <<>>
    /\ BiggestIncome(income) # <<>>
    /\ whileLoop' = <<[nextIncomeDate |-> BiggestIncome(income)[1].transaction_date,
                       pc |-> "while"]>>
    /\ UNCHANGED loopFrame

\* while (nextIncomeDate <= today): the test holds and the body runs
WhileBody ==
    /\ whileLoop # <<>>
    /\ whileLoop[1].pc = "while"
    /\ GetTime(whileLoop[1].nextIncomeDate) <= GetTime(today)
    /\ whileLoop' = <<[whileLoop[1] EXCEPT
                          !.nextIncomeDate = AddMonths(whileLoop[1].nextIncomeDate, 1)]>>
    /\ UNCHANGED loopFrame

\* while (nextIncomeDate <= today): the test fails and the loop is left
WhileExit ==
    /\ whileLoop # <<>>
    /\ whileLoop[1].pc = "while"
    /\ ~(GetTime(whileLoop[1].nextIncomeDate) <= GetTime(today))
    /\ whileLoop' = <<[whileLoop[1] EXCEPT !.pc = "done"]>>
    /\ UNCHANGED loopFrame

\* A call of calculateRecurringTransactions on the income of the store
InitWhileLoop ==
    /\ \E ni \in 0..MaxIncomes : income \in ListsOver(1, ni, PayDates, PayAmounts)
    /\ outgoings = <<>>
    /\ purchases = <<>>
    /\ today \in Todays
    /\ whileLoop = <<>>
    /\ calculation = <<>>
    /\ recurringCalc = <<>>
    /\ card = <<>>
    /\ NoScheduledOutgoings
    /\ NoSelection
    /\ db = <<>>
    /\ requests = <<>>
    /\ rawTransactions = <<>>
    /\ stats = <<>>
    /\ loading = FALSE
    /\ error = <<>>
    /\ transactions = <<>>
    /\ categorized = <<>>
    /\ type = ""
    /\ recurring = <<>>
    /\ balanceOverTime = <<>>
    /\ returned = <<>>
    /\ NoTable
    /\ NoUpcoming
    /\ chart = <<>>

NextWhileLoop ==
    \/ LetNextIncomeDate
    \/ WhileBody
    \/ WhileExit

SpecWhileLoop ==
    InitWhileLoop /\ [][NextWhileLoop]_vars

\* The function runs on: a step that can be taken is taken
FairWhileLoop ==
    SpecWhileLoop /\ WF_vars(NextWhileLoop)

----------------------------------------------------------------------------
(* Removal of duplicate scheduled outgoings.  The backend that answers
   POST /outgoings/remove-duplicates is written after section 4.5 of the
   specification and the description of the endpoint; the client and the
   table component are written after their code. *)

\* Entries of the backend collection, and clean-ups in one run
MaxScheduled == 3

MaxCleanups == 2

RECURSIVE TrimStart(_)
TrimStart(s) ==
    IF s # <<>> /\ Head(s) = " " THEN TrimStart(Tail(s)) ELSE s

RECURSIVE TrimEnd(_)
TrimEnd(s) ==
    IF s # <<>> /\ s[Len(s)] = " " THEN TrimEnd(SubSeq(s, 1, Len(s) - 1)) ELSE s

\* A normalized merchant or memo: without the blanks around it, in lower case
Normalize(s) ==
    ToLowerCase(TrimEnd(TrimStart(s)))

\* The composite key (normalized merchant, normalized memo)
DuplicateKey(outgoing) ==
    <<Normalize(outgoing.merchant), Normalize(outgoing.memo)>>

\* The positions of the collection that share the key of position i
GroupOf(collection, i) ==
    {j \in 1..Len(collection) : DuplicateKey(collection[j]) = DuplicateKey(collection[i])}

\* The canonical entry of a group: the cheaper entries are the duplicates, and
\* of two entries of the same amount the one of the higher id is
IsCanonical(collection, i) ==
    \A j \in GroupOf(collection, i) :
        \/ collection[j].amount < collection[i].amount
        \/ /\ collection[j].amount = collection[i].amount
           /\ collection[j].id >= collection[i].id

RECURSIVE SelectPositions(_, _, _)
\* The entries of the collection at the positions of a set, in their order
SelectPositions(collection, positions, i) ==
    IF i > Len(collection) THEN <<>>
    ELSE (IF i \in positions THEN <<collection[i]>> ELSE <<>>)
             \o SelectPositions(collection, positions, i + 1)

\* The entries to remove: every entry that is not the canonical one of its group
RemovalBatch(collection) ==
    SelectPositions(collection,
                    {i \in 1..Len(collection) : ~IsCanonical(collection, i)}, 1)

\* The entries that stay
KeptEntries(collection) ==
    SelectPositions(collection,
                    {i \in 1..Len(collection) : IsCanonical(collection, i)}, 1)

\* Variant: the count is the number of removed entries
CollapsedGroups_RemovedEntries(collection) ==
    Len(RemovalBatch(collection))

\* The number of groups of two or more entries
CollapsedGroups(collection) ==
    Cardinality({DuplicateKey(collection[i]) :
                    i \in {j \in 1..Len(collection) :
                               Cardinality(GroupOf(collection, j)) >= 2}})

\* The report of a removal
RemovalReport(collection) ==
    [removed |-> RemovalBatch(collection),
     count |-> CollapsedGroups(collection),
     message |-> IF CollapsedGroups(collection) > 0
                 THEN "Removed duplicate outgoings" ELSE "No duplicates found"]

\* Variant: a removal that fails has deleted the first entry of its batch
ScheduledAfterFailure_Partial(collection) ==
    IF RemovalBatch(collection) = <<>> THEN collection
    ELSE SelectPositions(collection,
             {i \in 1..Len(collection) : collection[i] # RemovalBatch(collection)[1]}, 1)

\* The collection after a removal that failed: nothing of it is applied
ScheduledAfterFailure(collection) ==
    collection

\* The (merchant, memo, amount) of the scheduled outgoings tried: two
\* spellings that normalize to the same key, and another merchant
ScheduledKinds ==
    <<<<(<<"G", "a", "s">>), (<<"B", "i", "l", "l">>), 30>>,
      <<(<<"G", "A", "S", " ">>), (<<"b", "i", "l", "l">>), 20>>,
      <<(<<"T", "v">>), (<<"B", "i", "l", "l">>), 20>>>>

ScheduledOutgoing(id, kind) ==
    [id |-> id, day_of_month |-> 1 + id, amount |-> ScheduledKinds[kind][3],
     merchant |-> ScheduledKinds[kind][1], memo |-> ScheduledKinds[kind][2],
     subcategory |-> "Direct Debit", account |-> "Current Account"]

\* handleCleanupDuplicates up to its await; the button is disabled while
\* cleaningDuplicates
HandleCleanupDuplicates ==
    /\ ~cleaningDuplicates
    /\ Len(cleanups) < MaxCleanups
    /\ cleaningDuplicates' = TRUE
    /\ duplicateResult' = <<>>
    /\ cleanupCall' = <<[state |-> "posted"]>>
    /\ UNCHANGED <<db, requests, storeVars, classifyVars, balanceVars,
                   recurringVars, projectionVars, overrideVars,
                   scheduled, scheduledOutgoings, outgoingsFetches, cleanups,
                   tableVars,
                   upcomingVars,
                   chart,
                   whileLoop>>

\* The backend removes the batch; the answer reaches the client, or is lost
\* on its way and the client's request fails
RemoveDuplicatesCommitted(answered) ==
    /\ cleanupCall = <<[state |-> "posted"]>>
    /\ scheduled' = KeptEntries(scheduled)
    /\ cleanupCall' = IF answered
                      THEN <<[state |-> "resolved", data |-> RemovalReport(scheduled)]>>
                      ELSE <<[state |-> "rejected"]>>
    /\ cleanups' = Append(cleanups,
           [before |-> scheduled, batch |-> RemovalBatch(scheduled),
            count |-> CollapsedGroups(scheduled), failed |-> FALSE,
            after |-> KeptEntries(scheduled)])
    /\ UNCHANGED <<db, requests, storeVars, classifyVars, balanceVars,
                   recurringVars, projectionVars, overrideVars,
                   cleaningDuplicates, duplicateResult, scheduledOutgoings, outgoingsFetches,
                   tableVars,
                   upcomingVars,
                   chart,
                   whileLoop>>

\* The backend fails while it removes the batch
RemoveDuplicatesFailed ==
    /\ cleanupCall = <<[state |-> "posted"]>>
    /\ scheduled' = ScheduledAfterFailure(scheduled)
    /\ cleanupCall' = <<[state |-> "rejected"]>>
    /\ cleanups' = Append(cleanups,
           [before |-> scheduled, batch |-> RemovalBatch(scheduled),
            count |-> CollapsedGroups(scheduled), failed |-> TRUE,
            after |-> ScheduledAfterFailure(scheduled)])
    /\ UNCHANGED <<db, requests, storeVars, classifyVars, balanceVars,
                   recurringVars, projectionVars, overrideVars,
                   cleaningDuplicates, duplicateResult, scheduledOutgoings, outgoingsFetches,
                   tableVars,
                   upcomingVars,
                   chart,
                   whileLoop>>

\* handleCleanupDuplicates after removeDuplicateOutgoings resolved, and finally
HandleCleanupDuplicatesResolved ==
    /\ cleanupCall # <<>>
    /\ cleanupCall[1].state = "resolved"
    /\ LET result == cleanupCall[1].data
       IN  /\ duplicateResult' = <<[count |-> result.count, message |-> result.message]>>
           /\ outgoingsFetches' = IF result.count > 0 THEN outgoingsFetches + 1
                                  ELSE outgoingsFetches
    /\ cleaningDuplicates' = FALSE
    /\ cleanupCall' = <<>>
    /\ UNCHANGED <<db, requests, storeVars, classifyVars, balanceVars,
                   recurringVars, projectionVars, overrideVars,
                   scheduled, scheduledOutgoings, cleanups,
                   tableVars,
                   upcomingVars,
                   chart,
                   whileLoop>>

\* handleCleanupDuplicates after removeDuplicateOutgoings rejected: the catch
\* block logs the error, and finally
HandleCleanupDuplicatesRejected ==
    /\ cleanupCall # <<>>
    /\ cleanupCall[1].state = "rejected"
    /\ cleaningDuplicates' = FALSE
    /\ cleanupCall' = <<>>
    /\ UNCHANGED <<db, requests, storeVars, classifyVars, balanceVars,
                   recurringVars, projectionVars, overrideVars,
                   scheduled, duplicateResult, scheduledOutgoings, outgoingsFetches, cleanups,
                   tableVars,
                   upcomingVars,
                   chart,
                   whileLoop>>

\* setTimeout(() => setDuplicateResult(null), 5000): while a result is shown,
\* the timer of that result at least is running
ClearDuplicateResult ==
    /\ duplicateResult # <<>>
    /\ duplicateResult' = <<>>
    /\ UNCHANGED <<db, requests, storeVars, classifyVars, balanceVars,
                   recurringVars, projectionVars, overrideVars,
                   scheduled, cleanupCall, cleaningDuplicates, scheduledOutgoings,
                   outgoingsFetches, cleanups,
                   tableVars,
                   upcomingVars,
                   chart,
                   whileLoop>>

\* fetchScheduledOutgoings after getScheduledOutgoings resolved
FetchScheduledOutgoingsResolved ==
    /\ outgoingsFetches > 0
    /\ scheduledOutgoings' = scheduled
    /\ outgoingsFetches' = outgoingsFetches - 1
    /\ UNCHANGED <<db, requests, storeVars, classifyVars, balanceVars,
                   recurringVars, projectionVars, overrideVars,
                   scheduled, cleanupCall, cleaningDuplicates, duplicateResult, cleanups,
                   tableVars,
                   upcomingVars,
                   chart,
                   whileLoop>>

\* fetchScheduledOutgoings after getScheduledOutgoings rejected
FetchScheduledOutgoingsRejected ==
    /\ outgoingsFetches > 0
    /\ outgoingsFetches' = outgoingsFetches - 1
    /\ UNCHANGED <<db, requests, storeVars, classifyVars, balanceVars,
                   recurringVars, projectionVars, overrideVars,
                   scheduled, cleanupCall, cleaningDuplicates, duplicateResult,
                   scheduledOutgoings, cleanups,
                   tableVars,
                   upcomingVars,
                   chart,
                   whileLoop>>

\* The dashboard is mounted over a backend collection: its first effect has
\* called fetchScheduledOutgoings
InitDuplicates ==
    /\ \E n \in 0..MaxScheduled :
       \E kinds \in [1..n -> 1..Len(ScheduledKinds)] :
           scheduled = [id \in 1..n |-> ScheduledOutgoing(id, kinds[id])]
    /\ cleanupCall = <<>>
    /\ cleaningDuplicates = FALSE
    /\ duplicateResult = <<>>
    /\ scheduledOutgoings = <<>>
    /\ outgoingsFetches = 1
    /\ cleanups = <<>>
    /\ NoSelection
    /\ db = <<>>
    /\ requests = <<>>
    /\ StoreInit
    /\ transactions = <<>>
    /\ categorized = <<>>
    /\ type = ""
    /\ recurring = <<>>
    /\ balanceOverTime = <<>>
    /\ returned = <<>>
    /\ today = <<>>
    /\ calculation = <<>>
    /\ recurringCalc = <<>>
    /\ card = <<>>
    /\ NoTable
    /\ NoUpcoming
    /\ chart = <<>>
    /\ whileLoop = <<>>

NextDuplicates ==
    \/ HandleCleanupDuplicates
    \/ \E answered \in BOOLEAN : RemoveDuplicatesCommitted(answered)
    \/ RemoveDuplicatesFailed
    \/ HandleCleanupDuplicatesResolved
    \/ HandleCleanupDuplicatesRejected
    \/ ClearDuplicateResult
    \/ FetchScheduledOutgoingsResolved
    \/ FetchScheduledOutgoingsRejected

SpecDuplicates ==
    InitDuplicates /\ [][NextDuplicates]_vars

----------------------------------------------------------------------------
(* The table of scheduled outgoings: import from a transaction, inline edit
   and delete.  No code calls setDialogOpen(true), so the dialog of
   handleAddOutgoing never opens and formData keeps its first value: that
   handler is never called.  POST, PATCH and DELETE /outgoings are written
   after the description of the endpoints. *)

\* Requests of the table to /outgoings in one run
MaxStoreCalls == 1

\* The value of parseFloat and parseInt: <<n>> for the number n, <<>> for NaN
NaN ==
    <<>>

\* The characters of the decimal digits, the digit d at position d + 1
Digits ==
    <<"0", "1", "2", "3", "4", "5", "6", "7", "8", "9">>

\* parseFloat and parseInt of a text without a decimal point: an optional
\* sign, then the digits up to the first other character
RECURSIVE ParseDigits(_, _, _)
ParseDigits(s, i, acc) ==
    IF i > Len(s) \/ ~(\E d \in 1..10 : Digits[d] = s[i])
    THEN IF i = 1 THEN NaN ELSE <<acc>>
    ELSE ParseDigits(s, i + 1,
             10 * acc + ((CHOOSE d \in 1..10 : Digits[d] = s[i]) - 1))

ParseFloat(s) ==
    IF Len(s) > 0 /\ s[1] = "-"
    THEN IF ParseDigits(Tail(s), 1, 0) = NaN THEN NaN
         ELSE <<0 - ParseDigits(Tail(s), 1, 0)[1]>>
    ELSE ParseDigits(s, 1, 0)

\* Number.prototype.toString of a whole number
RECURSIVE NumberToString(_)
NumberToString(n) ==
    IF n < 0 THEN <<"-">> \o NumberToString(0 - n)
    ELSE IF n < 10 THEN <<Digits[n + 1]>>
    ELSE NumberToString(n \div 10) \o <<Digits[(n % 10) + 1]>>

\* new Date("YYYY-MM-DD").getDate(): the text is midnight UTC, and the day
\* is read in the browser's time zone
NewDateGetDate(date, offset) ==
    IF offset >= 0 THEN date[3]
    ELSE IF date[3] > 1 THEN date[3] - 1
    ELSE IF date[2] > 1 THEN DaysInMonth(date[1], date[2] - 1)
    ELSE 31

\* Math.abs
Abs(n) ==
    IF n < 0 THEN 0 - n ELSE n

\* importableTransactions
Importable(t) ==
    LET subcategory == LoweredSubcategory(Or(t.override_subcategory, t.subcategory))
    IN  \/ Includes(subcategory, DIRECT_DEBIT)
        \/ Includes(subcategory, BILL_PAYMENT)
        \/ Includes(subcategory, STANDING_ORDER)
        \/ Includes(subcategory, RECURRING_MONTHLY_PAYMENT)

\* The variables that no handler of the table changes
tableFrame ==
    <<db, requests, storeVars, classifyVars, balanceVars, recurringVars,
      projectionVars, overrideVars, upcomingVars, chart, whileLoop, cleanupCall,
      cleaningDuplicates, duplicateResult, cleanups>>

\* The header's import button, and the dialog's Cancel and onClose.  The
\* dialog is modal: the table under it takes no click while it is open
SetImportDialogOpen(open) ==
    /\ importDialogOpen # open
    /\ importDialogOpen' = open
    /\ UNCHANGED <<tableFrame, scheduled, scheduledOutgoings, outgoingsFetches,
                   selectedTransaction, saving, deleting, editingId, editData,
                   outgoingCalls, submitted>>

\* The Select button of a row of the import dialog
SetSelectedTransaction(i) ==
    /\ importDialogOpen
    /\ Importable(rawTransactions[i])
    /\ selectedTransaction # <<rawTransactions[i]>>
    /\ selectedTransaction' = <<rawTransactions[i]>>
    /\ UNCHANGED <<tableFrame, scheduled, scheduledOutgoings, outgoingsFetches,
                   importDialogOpen, saving, deleting, editingId, editData,
                   outgoingCalls, submitted>>

\* handleImportTransaction up to its await, in a browser whose time zone is
\* offset hours ahead of UTC; the button is disabled while saving or while
\* no transaction is selected
HandleImportTransaction(offset) ==
    /\ importDialogOpen
    /\ ~saving
    /\ selectedTransaction # <<>>
    /\ Len(submitted) < MaxStoreCalls
    /\ LET t == selectedTransaction[1]
           data == [day_of_month |-> NewDateGetDate(t.transaction_date, offset),
                    merchant |-> Or(t.memo, t.account),
                    amount |-> Abs(t.amount),
                    subcategory |-> Or(Or(t.override_subcategory, t.subcategory),
                                       DirectDebit),
                    account |-> t.account]
           call == [handler |-> "handleImportTransaction", data |-> data,
                    from |-> t]
       IN  /\ outgoingCalls' = Append(outgoingCalls, call @@ [state |-> "posted"])
           /\ submitted' = Append(submitted, call.handler)
    /\ saving' = TRUE
    /\ UNCHANGED <<tableFrame, scheduled, scheduledOutgoings, outgoingsFetches,
                   importDialogOpen, selectedTransaction, deleting, editingId,
                   editData>>

\* handleImportTransaction after addScheduledOutgoing resolved, and finally
HandleImportTransactionResolved(i) ==
    /\ outgoingCalls[i].handler = "handleImportTransaction"
    /\ outgoingCalls[i].state = "resolved"
    /\ importDialogOpen' = FALSE
    /\ selectedTransaction' = <<>>
    /\ outgoingsFetches' = outgoingsFetches + 1
    /\ saving' = FALSE
    /\ outgoingCalls' = RemoveAt(outgoingCalls, i)
    /\ UNCHANGED <<tableFrame, scheduled, scheduledOutgoings, deleting, editingId,
                   editData, submitted>>

\* handleImportTransaction after addScheduledOutgoing rejected: the catch
\* block logs the error, and finally
HandleImportTransactionRejected(i) ==
    /\ outgoingCalls[i].handler = "handleImportTransaction"
    /\ outgoingCalls[i].state = "rejected"
    /\ saving' = FALSE
    /\ outgoingCalls' = RemoveAt(outgoingCalls, i)
    /\ UNCHANGED <<tableFrame, scheduled, scheduledOutgoings, outgoingsFetches,
                   importDialogOpen, selectedTransaction, deleting, editingId,
                   editData, submitted>>

\* The row of the table that is drawn with the text fields and with the
\* Save and Cancel buttons
EditingRow ==
    {i \in 1..Len(scheduledOutgoings) :
        editingId = <<scheduledOutgoings[i].id>>}

\* handleStartEdit; the Edit buttons are disabled while editingId is not null
HandleStartEdit(i) ==
    /\ ~importDialogOpen
    /\ editingId = <<>>
    /\ editingId' = <<scheduledOutgoings[i].id>>
    /\ editData' = [day_of_month |-> scheduledOutgoings[i].day_of_month,
                    amount |-> NumberToString(scheduledOutgoings[i].amount),
                    merchant |-> Or(Or(scheduledOutgoings[i].merchant,
                                       scheduledOutgoings[i].memo), EmptyStr)]
    /\ UNCHANGED <<tableFrame, scheduled, scheduledOutgoings, outgoingsFetches,
                   importDialogOpen, selectedTransaction, saving, deleting,
                   outgoingCalls, submitted>>

\* onChange of the day field of the edited row: parseInt(value) || 1
SetEditDay(text) ==
    /\ ~importDialogOpen
    /\ EditingRow # {}
    /\ LET value == ParseFloat(text)
           day == IF value = NaN THEN 1 ELSE IF value[1] = 0 THEN 1 ELSE value[1]
       IN  /\ editData.day_of_month # day
           /\ editData' = [editData EXCEPT !.day_of_month = day]
    /\ UNCHANGED <<tableFrame, scheduled, scheduledOutgoings, outgoingsFetches,
                   importDialogOpen, selectedTransaction, saving, deleting,
                   editingId, outgoingCalls, submitted>>

\* onChange of the amount field of the edited row
SetEditAmount(text) ==
    /\ ~importDialogOpen
    /\ EditingRow # {}
    /\ editData.amount # text
    /\ editData' = [editData EXCEPT !.amount = text]
    /\ UNCHANGED <<tableFrame, scheduled, scheduledOutgoings, outgoingsFetches,
                   importDialogOpen, selectedTransaction, saving, deleting,
                   editingId, outgoingCalls, submitted>>

\* handleCancelEdit; the button is disabled while saving
HandleCancelEdit ==
    /\ ~importDialogOpen
    /\ EditingRow # {}
    /\ ~saving
    /\ editingId' = <<>>
    /\ editData' = [day_of_month |-> 1, amount |-> <<>>, merchant |-> <<>>]
    /\ UNCHANGED <<tableFrame, scheduled, scheduledOutgoings, outgoingsFetches,
                   importDialogOpen, selectedTransaction, saving, deleting,
                   outgoingCalls, submitted>>

\* The two tests of handleSaveEdit before its try block
EditDataValid(data) ==
    /\ ParseFloat(data.amount) # NaN
    /\ ParseFloat(data.amount)[1] > 0
    /\ ~(data.day_of_month < 1 \/ data.day_of_month > 31)

\* handleSaveEdit with values that fail one of its tests: it returns
HandleSaveEditReturned ==
    /\ ~importDialogOpen
    /\ EditingRow # {}
    /\ ~saving
    /\ ~EditDataValid(editData)
    /\ UNCHANGED vars

\* handleSaveEdit up to its await; the button is disabled while saving
HandleSaveEdit ==
    /\ ~importDialogOpen
    /\ EditingRow # {}
    /\ ~saving
    /\ EditDataValid(editData)
    /\ Len(submitted) < MaxStoreCalls
    /\ LET call == [handler |-> "handleSaveEdit", id |-> editingId[1],
                    data |-> [day_of_month |-> editData.day_of_month,
                              amount |-> ParseFloat(editData.amount)[1],
                              merchant |-> editData.merchant]]
       IN  /\ outgoingCalls' = Append(outgoingCalls, call @@ [state |-> "posted"])
           /\ submitted' = Append(submitted, call.handler)
    /\ saving' = TRUE
    /\ UNCHANGED <<tableFrame, scheduled, scheduledOutgoings, outgoingsFetches,
                   importDialogOpen, selectedTransaction, deleting, editingId,
                   editData>>

\* handleSaveEdit after updateScheduledOutgoing resolved, and finally
HandleSaveEditResolved(i) ==
    /\ outgoingCalls[i].handler = "handleSaveEdit"
    /\ outgoingCalls[i].state = "resolved"
    /\ editingId' = <<>>
    /\ editData' = [day_of_month |-> 1, amount |-> <<>>, merchant |-> <<>>]
    /\ outgoingsFetches' = outgoingsFetches + 1
    /\ saving' = FALSE
    /\ outgoingCalls' = RemoveAt(outgoingCalls, i)
    /\ UNCHANGED <<tableFrame, scheduled, scheduledOutgoings, importDialogOpen,
                   selectedTransaction, deleting, submitted>>

\* handleSaveEdit after updateScheduledOutgoing rejected: the catch block
\* logs the error, and finally
HandleSaveEditRejected_EditClosed(i) ==
    /\ outgoingCalls[i].handler = "handleSaveEdit"
    /\ outgoingCalls[i].state = "rejected"
    /\ editingId' = <<>>
    /\ saving' = FALSE
    /\ outgoingCalls' = RemoveAt(outgoingCalls, i)
    /\ UNCHANGED <<tableFrame, scheduled, scheduledOutgoings, outgoingsFetches,
                   importDialogOpen, selectedTransaction, deleting,
                   editData, submitted>>

HandleSaveEditRejected(i) ==
    /\ outgoingCalls[i].handler = "handleSaveEdit"
    /\ outgoingCalls[i].state = "rejected"
    /\ saving' = FALSE
    /\ outgoingCalls' = RemoveAt(outgoingCalls, i)
    /\ UNCHANGED <<tableFrame, scheduled, scheduledOutgoings, outgoingsFetches,
                   importDialogOpen, selectedTransaction, deleting, editingId,
                   editData, submitted>>

\* handleDeleteOutgoing up to its await; the button of a row is disabled
\* while that row is being deleted or while editingId is not null
HandleDeleteOutgoing(i) ==
    /\ ~importDialogOpen
    /\ deleting # <<scheduledOutgoings[i].id>>
    /\ editingId = <<>>
    /\ Len(submitted) < MaxStoreCalls
    /\ LET call == [handler |-> "handleDeleteOutgoing",
                    id |-> scheduledOutgoings[i].id]
       IN  /\ outgoingCalls' = Append(outgoingCalls, call @@ [state |-> "posted"])
           /\ submitted' = Append(submitted, call.handler)
    /\ deleting' = <<scheduledOutgoings[i].id>>
    /\ UNCHANGED <<tableFrame, scheduled, scheduledOutgoings, outgoingsFetches,
                   importDialogOpen, selectedTransaction, saving, editingId,
                   editData>>

\* handleDeleteOutgoing after deleteScheduledOutgoing settled, and finally:
\* the refresh is called only when it resolved
HandleDeleteOutgoingSettled(i) ==
    /\ outgoingCalls[i].handler = "handleDeleteOutgoing"
    /\ outgoingCalls[i].state # "posted"
    /\ outgoingsFetches' = IF outgoingCalls[i].state = "resolved"
                           THEN outgoingsFetches + 1 ELSE outgoingsFetches
    /\ deleting' = <<>>
    /\ outgoingCalls' = RemoveAt(outgoingCalls, i)
    /\ UNCHANGED <<tableFrame, scheduled, scheduledOutgoings, importDialogOpen,
                   selectedTransaction, saving, editingId, editData, submitted>>

\* POST /outgoings, PATCH /outgoings/{id} and DELETE /outgoings/{id}: the
\* backend carries the request out and answers, or refuses it
OutgoingsEndpoint(i, accepted) ==
    /\ outgoingCalls[i].state = "posted"
    /\ LET call == outgoingCalls[i]
           ids == {scheduled[k].id : k \in 1..Len(scheduled)}
           newId == IF ids = {} THEN 1
                    ELSE 1 + CHOOSE m \in ids : \A n \in ids : n <= m
           known == call.handler = "handleImportTransaction" \/ call.id \in ids
       IN  /\ outgoingCalls' = [outgoingCalls EXCEPT ![i].state =
                   IF accepted /\ known THEN "resolved" ELSE "rejected"]
           /\ scheduled' =
                  IF ~(accepted /\ known) THEN scheduled
                  ELSE IF call.handler = "handleImportTransaction"
                  THEN Append(scheduled,
                           call.data @@ [id |-> newId, memo |-> EmptyStr])
                  ELSE IF call.handler = "handleSaveEdit"
                  THEN [k \in 1..Len(scheduled) |->
                           IF scheduled[k].id = call.id
                           THEN call.data @@ scheduled[k] ELSE scheduled[k]]
                  ELSE SelectSeq(scheduled, LAMBDA o : o.id # call.id)
    /\ UNCHANGED <<tableFrame, scheduledOutgoings, outgoingsFetches,
                   importDialogOpen, selectedTransaction, saving, deleting,
                   editingId, editData, submitted>>

\* The texts typed into the fields of the edited row
EditTexts ==
    {<<>>, <<"-", "5">>, <<"4", "5">>}

\* The raw transactions of the store: a direct debit on the first of a
\* month, a bill payment of nothing and a card purchase
TableTransactions ==
    <<RawTransaction(1, <<2024, 3, 1>>, 50, <<"G", "y", "m">>, DirectDebit, NoStr),
      RawTransaction(2, <<2024, 10, 15>>, 0, <<"T", "a", "x">>, BillPayment, NoStr),
      RawTransaction(3, <<2024, 10, 20>>, 30, <<"T", "e", "a">>, CardPurchase, NoStr)>>

\* The dashboard is mounted, the store holds the month's transactions and
\* the scheduled outgoings of the backend
InitTable ==
    /\ scheduled = [id \in 1..2 |->
           [ScheduledOutgoing(id, id) EXCEPT !.subcategory = DirectDebit]]
    /\ scheduledOutgoings = scheduled
    /\ importDialogOpen = FALSE
    /\ selectedTransaction = <<>>
    /\ saving = FALSE
    /\ deleting = <<>>
    /\ editingId = <<>>
    /\ editData = [day_of_month |-> 1, amount |-> <<>>, merchant |-> <<>>]
    /\ outgoingCalls = <<>>
    /\ submitted = <<>>
    /\ cleanupCall = <<>>
    /\ cleaningDuplicates = FALSE
    /\ duplicateResult = <<>>
    /\ outgoingsFetches = 0
    /\ cleanups = <<>>
    /\ NoSelection
    /\ db = <<>>
    /\ requests = <<>>
    /\ rawTransactions = TableTransactions
    /\ income = <<>>
    /\ outgoings = <<>>
    /\ purchases = <<>>
    /\ stats = <<>>
    /\ loading = FALSE
    /\ error = <<>>
    /\ transactions = <<>>
    /\ categorized = <<>>
    /\ type = ""
    /\ recurring = <<>>
    /\ balanceOverTime = <<>>
    /\ returned = <<>>
    /\ today = <<>>
    /\ calculation = <<>>
    /\ recurringCalc = <<>>
    /\ card = <<>>
    /\ NoUpcoming
    /\ chart = <<>>
    /\ whileLoop = <<>>

NextTable ==
    \/ \E open \in BOOLEAN : SetImportDialogOpen(open)
    \/ \E i \in 1..Len(rawTransactions) : SetSelectedTransaction(i)
    \/ \E offset \in {0 - 5, 1} : HandleImportTransaction(offset)
    \/ \E i \in 1..Len(outgoingCalls) : HandleImportTransactionResolved(i)
    \/ \E i \in 1..Len(outgoingCalls) : HandleImportTransactionRejected(i)
    \/ \E i \in 1..Len(scheduledOutgoings) : HandleStartEdit(i)
    \/ \E text \in EditTexts : SetEditDay(text)
    \/ \E text \in EditTexts : SetEditAmount(text)
    \/ HandleCancelEdit
    \/ HandleSaveEditReturned
    \/ HandleSaveEdit
    \/ \E i \in 1..Len(outgoingCalls) : HandleSaveEditResolved(i)
    \/ \E i \in 1..Len(outgoingCalls) : HandleSaveEditRejected(i)
    \/ \E i \in 1..Len(scheduledOutgoings) : HandleDeleteOutgoing(i)
    \/ \E i \in 1..Len(outgoingCalls) : HandleDeleteOutgoingSettled(i)
    \/ \E i \in 1..Len(outgoingCalls), accepted \in BOOLEAN :
           OutgoingsEndpoint(i, accepted)
    \/ FetchScheduledOutgoingsResolved
    \/ FetchScheduledOutgoingsRejected

SpecTable ==
    InitTable /\ [][NextTable]_vars

----------------------------------------------------------------------------
(* Paid and pending outgoings: the totals of the table and the upcoming
   outgoings that the dashboard gives to the available-spend card *)

\* Dashboard: the effect's upcoming, the sum of the outgoings that fall
\* after the balance day
UpcomingOutgoings_FromBalanceDay(outgoingList, day) ==
    SumAmounts(SelectSeq(outgoingList, LAMBDA o : o.day_of_month >= day))

UpcomingOutgoings(outgoingList, day) ==
    SumAmounts(SelectSeq(outgoingList, LAMBDA o : o.day_of_month > day))

\* ScheduledOutgoingsTable: sortedOutgoings, totalOutgoings,
\* upcomingOutgoings and the isPaid of every row
ScheduledOutgoingsTable(outgoingList, day) ==
    LET sortedOutgoings ==
            SortSeq(outgoingList, LAMBDA a, b : a.day_of_month < b.day_of_month)
    IN  [outgoings |-> outgoingList,
         balanceDayOfMonth |-> day,
         rows |-> [i \in 1..Len(sortedOutgoings) |->
                      [id |-> sortedOutgoings[i].id,
                       isPaid |-> sortedOutgoings[i].day_of_month <= day]],
         totalOutgoings |-> SumAmounts(sortedOutgoings),
         upcomingOutgoings |->
             SumAmounts(SelectSeq(sortedOutgoings,
                                  LAMBDA o : o.day_of_month > day))]

\* fetchLatestBalance after getLatestBalance resolved with a balance, and
\* handleBalanceUpdated: the balance was recorded on the given day
SetBalanceDayOfMonth(day) ==
    /\ balanceDayOfMonth # day
    /\ balanceDayOfMonth' = day
    /\ UNCHANGED <<db, requests, storeVars, classifyVars, balanceVars,
                   recurringVars, projectionVars, overrideVars, duplicateVars,
                   tableVars, chart, upcomingOutgoings, upcomingDeps, rendered,
                   whileLoop>>

\* The effect on [scheduledOutgoings, balanceDayOfMonth]: it runs after the
\* first render and after every render in which one of the two has changed
UpcomingOutgoingsEffect ==
    /\ upcomingDeps # <<scheduledOutgoings, balanceDayOfMonth>>
    /\ upcomingOutgoings' = UpcomingOutgoings(scheduledOutgoings, balanceDayOfMonth)
    /\ upcomingDeps' = <<scheduledOutgoings, balanceDayOfMonth>>
    /\ UNCHANGED <<db, requests, storeVars, classifyVars, balanceVars,
                   recurringVars, projectionVars, overrideVars, duplicateVars,
                   tableVars, chart, balanceDayOfMonth, rendered,
                   whileLoop>>

\* A render of the dashboard: the props of AvailableSpendCard and what the
\* table shows
RenderDashboard ==
    /\ rendered' = <<[card |-> [upcomingOutgoings |-> upcomingOutgoings],
                      table |-> ScheduledOutgoingsTable(scheduledOutgoings,
                                                        balanceDayOfMonth),
                      effectRan |->
                          upcomingDeps = <<scheduledOutgoings, balanceDayOfMonth>>]>>
    /\ UNCHANGED <<db, requests, storeVars, classifyVars, balanceVars,
                   recurringVars, projectionVars, overrideVars, duplicateVars,
                   tableVars, chart, balanceDayOfMonth, upcomingOutgoings,
                   upcomingDeps,
                   whileLoop>>

\* The dashboard is mounted on some day of the month over a backend
\* collection: its first effect has called fetchScheduledOutgoings
InitUpcoming ==
    /\ \E n \in 0..MaxScheduled :
       \E days \in [1..n -> {1, 15, 31}] :
           scheduled = [id \in 1..n |->
               [ScheduledOutgoing(id, 1 + (id % Len(ScheduledKinds)))
                   EXCEPT !.day_of_month = days[id]]]
    /\ balanceDayOfMonth \in {1, 15}
    /\ upcomingOutgoings = 0
    /\ upcomingDeps = <<>>
    /\ rendered = <<>>
    /\ cleanupCall = <<>>
    /\ cleaningDuplicates = FALSE
    /\ duplicateResult = <<>>
    /\ scheduledOutgoings = <<>>
    /\ outgoingsFetches = 1
    /\ cleanups = <<>>
    /\ NoSelection
    /\ NoTable
    /\ db = <<>>
    /\ requests = <<>>
    /\ StoreInit
    /\ transactions = <<>>
    /\ categorized = <<>>
    /\ type = ""
    /\ recurring = <<>>
    /\ balanceOverTime = <<>>
    /\ returned = <<>>
    /\ today = <<>>
    /\ calculation = <<>>
    /\ recurringCalc = <<>>
    /\ card = <<>>
    /\ chart = <<>>
    /\ whileLoop = <<>>

NextUpcoming ==
    \/ FetchScheduledOutgoingsResolved
    \/ FetchScheduledOutgoingsRejected
    \/ \E day \in {1, 15, 31} : SetBalanceDayOfMonth(day)
    \/ UpcomingOutgoingsEffect
    \/ RenderDashboard

SpecUpcoming ==
    InitUpcoming /\ [][NextUpcoming]_vars

----------------------------------------------------------------------------
(* BalanceChart: the series filled to one point for every calendar day *)

\* addDays(cursor, 1) (date-fns)
AddDays_SameMonth(date, amount) ==
    <<date[1], date[2], date[3] + amount>>

AddDays(date, amount) ==
    IF date[3] + amount <= DaysInMonth(date[1], date[2])
    THEN <<date[1], date[2], date[3] + amount>>
    ELSE IF date[2] < 12
    THEN <<date[1], date[2] + 1, date[3] + amount - DaysInMonth(date[1], date[2])>>
    ELSE <<date[1] + 1, 1, date[3] + amount - 31>>

\* The while loop of normalizedData from the cursor on.  A point's date is
\* the cursor itself, not its getTime(); balance and dailyChange are whole
\* pence, which Math.round(x * 100) / 100 leaves as they are
RECURSIVE FillDays(_, _, _, _, _, _)
FillDays(cursor, endDate, index, previousBalance, dailyBalanceByDate, counterCreditByDate) ==
    IF ~(GetTime(cursor) <= GetTime(endDate)) THEN <<>>
    ELSE LET balanceForDay == IF cursor \in DOMAIN dailyBalanceByDate
                              THEN dailyBalanceByDate[cursor]
                              ELSE previousBalance
             dailyChange == IF index = 0 THEN 0
                            ELSE balanceForDay - previousBalance
         IN  <<[date |-> cursor,
                balance |-> balanceForDay,
                dailyChange |-> dailyChange,
                incomeBar |-> IF cursor \in counterCreditByDate
                              THEN <<1>> ELSE <<>>]>>
             \o FillDays(AddDays(cursor, 1), endDate, index + 1, balanceForDay,
                         dailyBalanceByDate, counterCreditByDate)

\* BalanceChart: normalizedData.  A Map written in the order of the series
\* keeps the last balance of a day; the sorted keys of the dates are in the
\* order of the days
normalizedData(data, raws) ==
    IF Len(data) = 0 THEN <<>>
    ELSE LET counterCreditByDate ==
                 {raws[i].transaction_date : i \in
                     {j \in 1..Len(raws) :
                         /\ Truthy(raws[j].subcategory)
                         /\ Includes(ToLowerCase(raws[j].subcategory),
                                     COUNTER_CREDIT)}}
             dayKeys == {data[i].date : i \in 1..Len(data)}
             LastOf(dayKey) == CHOOSE i \in 1..Len(data) :
                                   /\ data[i].date = dayKey
                                   /\ \A j \in 1..Len(data) :
                                          data[j].date = dayKey => j <= i
             dailyBalanceByDate == [dayKey \in dayKeys |-> data[LastOf(dayKey)].balance]
             startDate == CHOOSE d \in dayKeys :
                              \A e \in dayKeys : GetTime(d) <= GetTime(e)
             endDate == CHOOSE d \in dayKeys :
                            \A e \in dayKeys : GetTime(e) <= GetTime(d)
         IN  FillDays(startDate, endDate, 0, dailyBalanceByDate[startDate],
                      dailyBalanceByDate, counterCreditByDate)

\* The dashboard draws the chart when the series is not empty
RenderBalanceChart ==
    LET data == calculateBalanceOverTime(income, outgoings, purchases, 0)
    IN  /\ Len(data) > 0
        /\ chart' = <<[data |-> data, rawTransactions |-> rawTransactions,
                       normalizedData |-> normalizedData(data, rawTransactions)]>>
        /\ UNCHANGED <<db, requests, storeVars, classifyVars, balanceVars,
                       recurringVars, projectionVars, overrideVars, duplicateVars,
                       tableVars, upcomingVars,
                   whileLoop>>

\* The store holds the transactions of a fetch and their three lists.  Every
\* transaction has one of four (subcategory, override) pairs and one of
\* three dates around the end of February 2024
InitChart ==
    /\ \E n \in 0..MaxEvents :
       \E kinds \in [1..n -> {<<CounterCredit, NoStr>>, <<Debit, CounterCredit>>,
                              <<CounterCredit, CardPurchase>>, <<DirectDebit, NoStr>>}] :
       \E dates \in [1..n -> {<<2024, 2, 27>>, <<2024, 2, 28>>, <<2024, 3, 2>>}] :
           rawTransactions = [id \in 1..n |->
               RawTransaction(id, dates[id], TxnAmount(id), TxnMemo(id),
                              kinds[id][1], kinds[id][2])]
    /\ income = categorizeRawTransactions(rawTransactions).income
    /\ outgoings = categorizeRawTransactions(rawTransactions).outgoings
    /\ purchases = categorizeRawTransactions(rawTransactions).purchases
    /\ stats = <<CalculateStats(outgoings, income, purchases)>>
    /\ loading = FALSE
    /\ error = <<>>
    /\ chart = <<>>
    /\ db = <<>>
    /\ requests = <<>>
    /\ transactions = <<>>
    /\ categorized = <<>>
    /\ type = ""
    /\ recurring = <<>>
    /\ balanceOverTime = <<>>
    /\ returned = <<>>
    /\ today = <<>>
    /\ calculation = <<>>
    /\ recurringCalc = <<>>
    /\ card = <<>>
    /\ NoScheduledOutgoings
    /\ NoSelection
    /\ NoTable
    /\ NoUpcoming
    /\ whileLoop = <<>>

NextChart ==
    RenderBalanceChart

SpecChart ==
    InitChart /\ [][NextChart]_vars

----------------------------------------------------------------------------
(* The date-range mode of the dashboard *)

\* The time zones of the browser that are tried, in hours from UTC
UtcOffsets ==
    {0 - 5, 1}

\* The dates the two date fields are tried with; a cleared field gives ""
FieldDates ==
    {EmptyStr, <<2024, 1, 31>>, <<2024, 10, 1>>}

\* The day before the date
PreviousDay(date) ==
    IF date[3] > 1 THEN <<date[1], date[2], date[3] - 1>>
    ELSE IF date[2] > 1 THEN <<date[1], date[2] - 1, DaysInMonth(date[1], date[2] - 1)>>
    ELSE <<date[1] - 1, 12, 31>>

\* toISOString().split('T')[0] of a Date that is midnight of the date in
\* local time: east of UTC that moment is still the day before in UTC
ToISODate(date, offset) ==
    IF offset > 0 THEN PreviousDay(date) ELSE date

\* handleStartDateChange's end date: new Date(date) is midnight UTC,
\* setMonth(getMonth() + 1) and setDate(getDate() - 1) work on the local
\* date, a day number past the end of the month running into the next
\* month, and toISOString() reads the result in UTC again
EndDateOfStartDate(date, offset) ==
    LET startDate == IF offset < 0 THEN PreviousDay(date) ELSE date
        months == startDate[2]
        monthLater == AddDays(<<startDate[1] + (months \div 12), (months % 12) + 1, 1>>,
                              startDate[3] - 1)
        endDate == PreviousDay(monthLater)
    IN  IF offset < 0 THEN AddDays(endDate, 1) ELSE endDate

\* The two effects of useBudgetData on the selection, run after a render in
\* which one of their dependencies has changed
SelectionEffects ==
    LET range(dr) == IF dr = <<>> THEN <<NoStr, NoStr>>
                     ELSE <<dr[1].startDate, dr[1].endDate>>
        byMonth == IF /\ <<selectedMonth', useDateRange'>> # <<selectedMonth, useDateRange>>
                      /\ ~useDateRange' /\ selectedMonth' # <<>>
                   THEN <<MonthRequest(selectedMonth'[1].year, selectedMonth'[1].month)>>
                   ELSE <<>>
        byRange == IF /\ <<useDateRange', range(dateRange')>> # <<useDateRange, range(dateRange)>>
                      /\ useDateRange' /\ dateRange' # <<>>
                      /\ dateRange'[1].startDate # EmptyStr
                      /\ dateRange'[1].endDate # EmptyStr
                   THEN <<DateRangeRequest(dateRange'[1].startDate, dateRange'[1].endDate)>>
                   ELSE <<>>
    IN  /\ requests' = requests \o byMonth \o byRange
        /\ IF byMonth \o byRange # <<>>
           THEN loading' = TRUE /\ error' = <<>>
           ELSE UNCHANGED <<loading, error>>

\* What a handler of the selection leaves alone
selectionFrame ==
    <<db, rawTransactions, income, outgoings, purchases, stats, typeChanges,
      updatingTransactionId, classifyVars, balanceVars, recurringVars,
      projectionVars, duplicateVars, tableVars, upcomingVars, chart,
      whileLoop>>

\* fetchAvailableMonths after getAvailableMonths resolved, called on mount
\* with no month selected
FetchAvailableMonthsResolved(months) ==
    /\ selectedMonth = <<>>
    /\ Len(requests) < MaxInFlight
    /\ selectedMonth' = IF Len(months) > 0
                        THEN <<[year |-> months[1][1], month |-> months[1][2]]>>
                        ELSE selectedMonth
    /\ UNCHANGED <<useDateRange, dateRange, selectionFrame>>
    /\ SelectionEffects

\* handleDateRangeToggle, from the switch of the controls
HandleDateRangeToggle(checked, now, offset) ==
    /\ TableShown
    /\ checked # useDateRange
    /\ Len(requests) < MaxInFlight
    /\ IF checked
       THEN IF dateRange # <<>> /\ dateRange[1].startDate # EmptyStr
                                /\ dateRange[1].endDate # EmptyStr
            THEN /\ useDateRange' = TRUE
                 /\ UNCHANGED dateRange
            ELSE LET year == IF selectedMonth # <<>> THEN selectedMonth[1].year ELSE now[1]
                     month == IF selectedMonth # <<>> THEN selectedMonth[1].month ELSE now[2]
                     firstDay == <<year, month, 1>>
                     lastDay == <<year, month, DaysInMonth(year, month)>>
                 IN  /\ useDateRange' = TRUE
                     /\ dateRange' = <<[startDate |-> ToISODate(firstDay, offset),
                                        endDate |-> ToISODate(lastDay, offset)]>>
       ELSE /\ useDateRange' = FALSE
            /\ UNCHANGED dateRange
    /\ UNCHANGED <<selectedMonth, selectionFrame>>
    /\ SelectionEffects

\* handleStartDateChange, from the start date field; toISOString() throws
\* on the invalid date of a cleared field, before the store is touched
HandleStartDateChange(date, offset) ==
    /\ TableShown
    /\ useDateRange /\ dateRange # <<>>
    /\ Len(requests) < MaxInFlight
    /\ IF date = EmptyStr
       THEN UNCHANGED dateRange
       ELSE dateRange' = <<[startDate |-> date,
                            endDate |-> EndDateOfStartDate(date, offset)]>>
    /\ UNCHANGED <<selectedMonth, useDateRange, selectionFrame>>
    /\ SelectionEffects

\* handleEndDateChange, from the end date field
HandleEndDateChange(date) ==
    /\ TableShown
    /\ useDateRange /\ dateRange # <<>>
    /\ Len(requests) < MaxInFlight
    /\ dateRange' = <<[startDate |-> IF dateRange[1].startDate # EmptyStr
                                     THEN dateRange[1].startDate ELSE date,
                       endDate |-> date]>>
    /\ UNCHANGED <<selectedMonth, useDateRange, selectionFrame>>
    /\ SelectionEffects

\* The initial state of the store, with the dashboard mounted
InitDateRange ==
    /\ \E k \in 0..2 :
           db = [id \in 1..MaxTxns |->
                    RawTransaction(id, TxnDate(id), TxnAmount(id), TxnMemo(id),
                                   DbSubcategories[((id + k) % 3) + 1], NoStr)]
    /\ selectedMonth = <<>>
    /\ useDateRange = FALSE
    /\ dateRange = <<>>
    /\ requests = <<>>
    /\ typeChanges = <<>>
    /\ updatingTransactionId = <<>>
    /\ rawTransactions = <<>>
    /\ income = <<>>
    /\ outgoings = <<>>
    /\ purchases = <<>>
    /\ stats = <<>>
    /\ loading = FALSE
    /\ error = <<>>
    /\ transactions = <<>>
    /\ categorized = <<>>
    /\ type = ""
    /\ recurring = <<>>
    /\ balanceOverTime = <<>>
    /\ returned = <<>>
    /\ today = <<>>
    /\ calculation = <<>>
    /\ recurringCalc = <<>>
    /\ card = <<>>
    /\ NoScheduledOutgoings
    /\ NoTable
    /\ NoUpcoming
    /\ chart = <<>>
    /\ whileLoop = <<>>

NextDateRange ==
    \/ \E ym \in FetchMonths : FetchAvailableMonthsResolved(<<ym>>)
    \/ \E ym \in FetchMonths : HandleMonthChange(ym[1], ym[2])
    \/ \E checked \in BOOLEAN, now \in Todays, offset \in UtcOffsets :
           HandleDateRangeToggle(checked, now, offset)
    \/ \E date \in FieldDates, offset \in UtcOffsets : HandleStartDateChange(date, offset)
    \/ \E date \in FieldDates : HandleEndDateChange(date)
    \/ \E i \in 1..MaxInFlight : RawTransactionsRead(i)
    \/ \E i \in 1..MaxInFlight : RawTransactionsResolved(i)
    \/ \E i \in 1..MaxInFlight, m \in ErrorMessages : RawTransactionsRejected(i, m)

SpecDateRange ==
    InitDateRange /\ [][NextDateRange]_vars

----------------------------------------------------------------------------
(* Vocabulary of the classification properties *)

\* The entries of a list that carry the id
EntriesOf(list, id) ==
    {list[i] : i \in {j \in 1..Len(list) : list[j].id = id}}

\* How many entries of a list carry the id
Occurrences(list, id) ==
    Cardinality({j \in 1..Len(list) : list[j].id = id})

\* The lists of a categorization that hold the id
ListsOf(result, id) ==
    {name \in {"Income", "Outgoing", "Purchase"} :
        \/ name = "Income" /\ Occurrences(result.income, id) > 0
        \/ name = "Outgoing" /\ Occurrences(result.outgoings, id) > 0
        \/ name = "Purchase" /\ Occurrences(result.purchases, id) > 0}

\* The rule table of the classifier, on a lower-cased category
RuleOf(category) ==
    IF Includes(category, COUNTER_CREDIT) THEN "Income"
    ELSE IF \E literal \in {DIRECT_DEBIT, BILL_PAYMENT, STANDING_ORDER,
                            RECURRING_MONTHLY_PAYMENT, CREDIT_PAYMENT} :
                Includes(category, literal)
         THEN "Outgoing"
    ELSE IF \E literal \in {CARD_PURCHASE, DEBIT} : Includes(category, literal)
         THEN "Purchase"
    ELSE "Unclassified"

\* What a list name expects of a transaction: the list and the derived entry
ExpectedLists(category) ==
    IF RuleOf(category) = "Unclassified" THEN {} ELSE {RuleOf(category)}

\* Lower-casing of a category that may be missing
LowerOrEmpty(category) ==
    IF category = NoStr THEN EmptyStr ELSE ToLowerCase(category)

\* The categorization held by the store
StoreLists ==
    [income |-> income, outgoings |-> outgoings, purchases |-> purchases]

\* C1: a direct call of categorizeRawTransactions returns three lists in which
\* every input transaction occurs at most once over all three lists together
\* (once: Income, Outgoing or Purchase; never: Unclassified), and the lists hold
\* nothing but input transactions.
C1_AtMostOneList ==
    categorized # <<>> =>
        LET result == categorized[1]
            ids == {transactions[i].id : i \in 1..Len(transactions)}
        IN  /\ \A id \in ids :
                  Occurrences(result.income, id) + Occurrences(result.outgoings, id)
                      + Occurrences(result.purchases, id) <= 1
            /\ \A list \in {result.income, result.outgoings, result.purchases} :
                  \A j \in 1..Len(list) : list[j].id \in ids

\* C1 witness: a call returned, on an input holding a transaction whose category
\* matches two rules and is in one list, and another that is in no list
C1_Witness ==
    /\ categorized # <<>>
    /\ \E i, j \in 1..Len(transactions) :
          /\ transactions[i].subcategory = DirectDebit
          /\ transactions[i].override_subcategory = NoStr
          /\ ListsOf(categorized[1], transactions[i].id) = {"Outgoing"}
          /\ transactions[j].subcategory = NoStr
          /\ transactions[j].override_subcategory = EmptyStr
          /\ ListsOf(categorized[1], transactions[j].id) = {}

\* C2: the list of every transaction is the first rule that its lower-cased
\* effective category matches, in the order Income, Outgoing, Purchase, none;
\* an income entry has source = memo, an outgoing or purchase entry has
\* merchant = memo.
C2_FirstMatchWins ==
    categorized # <<>> =>
        \A i \in 1..Len(transactions) :
            LET t == transactions[i]
                category == LowerOrEmpty(EffectiveSubcategory(t))
                result == categorized[1]
            IN  /\ ListsOf(result, t.id) = ExpectedLists(category)
                /\ \A e \in EntriesOf(result.income, t.id) : e.source = t.memo
                /\ \A e \in EntriesOf(result.outgoings, t.id) : e.merchant = t.memo
                /\ \A e \in EntriesOf(result.purchases, t.id) : e.merchant = t.memo

\* C2 witness: "Direct Debit" (also contains "debit") is an outgoing, and an
\* upper-case "DIRECT DEBIT" is one too
C2_Witness ==
    /\ categorized # <<>>
    /\ \E i, j \in 1..Len(transactions) :
          /\ transactions[i].subcategory = DirectDebit
          /\ transactions[i].override_subcategory = NoStr
          /\ \E e \in EntriesOf(categorized[1].outgoings, transactions[i].id) :
                 e.merchant = transactions[i].memo
          /\ transactions[j].subcategory = UpperDirectDebit
          /\ transactions[j].override_subcategory = NoStr
          /\ ListsOf(categorized[1], transactions[j].id) = {"Outgoing"}

\* C3: in the store, after any fetch, every raw transaction whose override is
\* "Counter Credit" is in the income list and in no other list, whatever its
\* original subcategory.
C3_CounterCreditOverrideIsIncome ==
    \A i \in 1..Len(rawTransactions) :
        rawTransactions[i].override_subcategory = CounterCredit =>
            ListsOf(StoreLists, rawTransactions[i].id) = {"Income"}

\* C3 witness: a transaction whose original subcategory is "Direct Debit" got
\* the override "Counter Credit" and the next fetch put it in the income list
C3_Witness ==
    \E i \in 1..Len(rawTransactions) :
        /\ rawTransactions[i].subcategory = DirectDebit
        /\ rawTransactions[i].override_subcategory = CounterCredit
        /\ ListsOf(StoreLists, rawTransactions[i].id) = {"Income"}

\* The classification of one raw transaction: the lists and entries it is in
ClassificationOf(result, id) ==
    [income |-> EntriesOf(result.income, id),
     outgoings |-> EntriesOf(result.outgoings, id),
     purchases |-> EntriesOf(result.purchases, id)]

\* C4: a raw transaction whose override has been cleared (is empty again) is
\* classified by the store exactly as the same transaction is before any
\* override is set: the same list and the same derived fields.
C4_OverrideRoundTrip ==
    \A i \in 1..Len(rawTransactions) :
        LET t == rawTransactions[i]
            before == [t EXCEPT !.override_subcategory = NoStr]
        IN  ~Truthy(t.override_subcategory) =>
                ClassificationOf(StoreLists, t.id)
                    = ClassificationOf(categorizeRawTransactions(<<before>>), t.id)

\* C4 witness: the store holds a "Direct Debit" transaction whose override was
\* cleared by sending "", and it is an outgoing again
C4_Witness ==
    \E i \in 1..Len(rawTransactions) :
        /\ rawTransactions[i].subcategory = DirectDebit
        /\ rawTransactions[i].override_subcategory = EmptyStr
        /\ db[rawTransactions[i].id].override_subcategory = EmptyStr
        /\ \E e \in EntriesOf(outgoings, rawTransactions[i].id) :
               e.subcategory = DirectDebit

\* C5 as stated: the effective category is override ?? subcategory, so a
\* present override is used even when it is the empty string.
C5_NullishEffectiveCategory ==
    categorized # <<>> =>
        \A i \in 1..Len(transactions) :
            LET t == transactions[i]
                effective == IF t.override_subcategory # NoStr
                             THEN t.override_subcategory
                             ELSE t.subcategory
            IN  /\ ListsOf(categorized[1], t.id) = ExpectedLists(LowerOrEmpty(effective))
                /\ \A list \in {categorized[1].income, categorized[1].outgoings,
                                categorized[1].purchases} :
                       \A e \in EntriesOf(list, t.id) : e.subcategory = effective

\* C5 amended: the effective category is the override when the override is
\* present and not the empty string, and the original subcategory otherwise;
\* the transaction is classified on it and a classified entry carries it as
\* its subcategory.
C5_EffectiveCategory ==
    categorized # <<>> =>
        \A i \in 1..Len(transactions) :
            LET t == transactions[i]
                effective == IF t.override_subcategory # NoStr
                                /\ t.override_subcategory # EmptyStr
                             THEN t.override_subcategory
                             ELSE t.subcategory
            IN  /\ ListsOf(categorized[1], t.id) = ExpectedLists(LowerOrEmpty(effective))
                /\ \A list \in {categorized[1].income, categorized[1].outgoings,
                                categorized[1].purchases} :
                       \A e \in EntriesOf(list, t.id) : e.subcategory = effective

\* C5 witness: an empty-string override on a "Direct Debit" falls back to the
\* original, and a non-empty override on a "Direct Debit" is used
C5_Witness ==
    /\ categorized # <<>>
    /\ \E i, j \in 1..Len(transactions) :
          /\ transactions[i].subcategory = DirectDebit
          /\ transactions[i].override_subcategory = EmptyStr
          /\ ListsOf(categorized[1], transactions[i].id) = {"Outgoing"}
          /\ transactions[j].subcategory = DirectDebit
          /\ transactions[j].override_subcategory = CounterCredit
          /\ \E e \in EntriesOf(categorized[1].income, transactions[j].id) :
                 e.subcategory = CounterCredit

\* The raw transactions of the store that some rule matches
MatchingRaw ==
    SelectSeq(rawTransactions, LAMBDA t :
        RuleOf(LowerOrEmpty(EffectiveSubcategory(t))) # "Unclassified")

\* The raw transactions of the store that the named rule matches first
RawOfRule(rule) ==
    SelectSeq(rawTransactions, LAMBDA t :
        RuleOf(LowerOrEmpty(EffectiveSubcategory(t))) = rule)

\* C6: once a fetch has succeeded, the stats are those of the three lists of
\* the store: the three counts add up to the number of fetched raw
\* transactions that match a rule, each total is the sum of the amounts of the
\* raw transactions of its rule, total_expenses = total_outgoings +
\* total_purchases and net = total_income - total_expenses; an unmatched
\* transaction adds to none of them.
C6_StatsOverClassified ==
    stats # <<>> =>
        LET s == stats[1]
        IN  /\ s.income_count = Len(income)
            /\ s.outgoing_count = Len(outgoings)
            /\ s.purchase_count = Len(purchases)
            /\ s.income_count + s.outgoing_count + s.purchase_count = Len(MatchingRaw)
            /\ s.total_income = SumAmounts(RawOfRule("Income"))
            /\ s.total_outgoings = SumAmounts(RawOfRule("Outgoing"))
            /\ s.total_purchases = SumAmounts(RawOfRule("Purchase"))
            /\ s.total_expenses = s.total_outgoings + s.total_purchases
            /\ s.net = s.total_income - s.total_expenses

\* C6 witness: a fetch succeeded with an unmatched transaction next to a
\* purchase, and the counts leave the unmatched one out
C6_Witness ==
    /\ stats # <<>>
    /\ Len(MatchingRaw) < Len(rawTransactions)
    /\ stats[1].purchase_count > 0
    /\ stats[1].total_expenses > 0
    /\ stats[1].income_count + stats[1].outgoing_count + stats[1].purchase_count
           = Len(rawTransactions) - 1

----------------------------------------------------------------------------
(* Vocabulary of the balance properties *)

\* The input transactions in arrival order, with the sign of their list
SignedEvents ==
    [i \in 1..Len(income) |->
        [date |-> income[i].transaction_date, signed |-> income[i].amount]]
    \o [i \in 1..Len(outgoings) |->
        [date |-> outgoings[i].transaction_date, signed |-> 0 - outgoings[i].amount]]
    \o [i \in 1..Len(purchases) |->
        [date |-> purchases[i].transaction_date, signed |-> 0 - purchases[i].amount]]

\* Calendar order of two dates
DateBefore(a, b) ==
    \/ a[1] < b[1]
    \/ a[1] = b[1] /\ a[2] < b[2]
    \/ a[1] = b[1] /\ a[2] = b[2] /\ a[3] < b[3]

OrdersOf(n) ==
    {p \in [1..n -> 1..n] : \A a, b \in 1..n : p[a] = p[b] => a = b}

RECURSIVE SignedSum(_, _, _)
\* Sum of the signed amounts of the first k events in the order p
SignedSum(events, p, k) ==
    IF k = 0 THEN 0 ELSE events[p[k]].signed + SignedSum(events, p, k - 1)

\* C7: a call returns one point per input transaction, and for some date
\* order of the input the k-th point has the date of the k-th event and the
\* balance startingBalance + the signed amounts of the first k events; 100,
\* +50 on one day and -30 on the next give the balances 150, 120.
C7_RunningBalance ==
    balanceOverTime # <<>> =>
        LET call == balanceOverTime[1]
            events == SignedEvents
            n == Len(events)
        IN  /\ Len(call.series) = n
            /\ \E p \in OrdersOf(n) :
                  /\ \A a, b \in 1..n :
                        a < b => ~DateBefore(events[p[b]].date, events[p[a]].date)
                  /\ \A k \in 1..n :
                        /\ call.series[k].date = events[p[k]].date
                        /\ call.series[k].balance
                               = call.startingBalance + SignedSum(events, p, k)
            /\ ( /\ call.startingBalance = 100
                 /\ Len(income) = 1 /\ Len(outgoings) = 1 /\ Len(purchases) = 0
                 /\ income[1].amount = 50 /\ income[1].transaction_date = <<2024, 1, 1>>
                 /\ outgoings[1].amount = 30
                 /\ outgoings[1].transaction_date = <<2024, 1, 2>> )
               => call.series = <<[date |-> <<2024, 1, 1>>, balance |-> 150],
                                  [date |-> <<2024, 1, 2>>, balance |-> 120]>>

\* C7 witness: the call of the example returned two points
C7_Witness ==
    /\ balanceOverTime # <<>>
    /\ balanceOverTime[1].startingBalance = 100
    /\ Len(income) = 1 /\ Len(outgoings) = 1 /\ Len(purchases) = 0
    /\ income[1].amount = 50 /\ income[1].transaction_date = <<2024, 1, 1>>
    /\ outgoings[1].amount = 30 /\ outgoings[1].transaction_date = <<2024, 1, 2>>
    /\ Len(balanceOverTime[1].series) = 2

\* C8: along the returned series the dates never decrease, and the points are
\* those of the input taken by date with, on one date, the arrival order:
\* incomes, then outgoings, then purchases, each in input order.
C8_DateOrderStable ==
    balanceOverTime # <<>> =>
        LET call == balanceOverTime[1]
            events == SignedEvents
            n == Len(events)
            before(k) == IF k = 1 THEN call.startingBalance
                         ELSE call.series[k - 1].balance
        IN  /\ Len(call.series) = n
            /\ \A k \in 1..(n - 1) :
                  ~DateBefore(call.series[k + 1].date, call.series[k].date)
            /\ \E p \in OrdersOf(n) :
                  /\ \A a, b \in 1..n :
                        a < b =>
                            \/ DateBefore(events[p[a]].date, events[p[b]].date)
                            \/ events[p[a]].date = events[p[b]].date /\ p[a] < p[b]
                  /\ \A k \in 1..n :
                        /\ call.series[k].date = events[p[k]].date
                        /\ call.series[k].balance - before(k) = events[p[k]].signed

\* C8 witness: an income, an outgoing and a purchase of one day come out in
\* that order
C8_Witness ==
    /\ balanceOverTime # <<>>
    /\ Len(income) = 1 /\ Len(outgoings) = 1 /\ Len(purchases) = 1
    /\ income[1].transaction_date = outgoings[1].transaction_date
    /\ purchases[1].transaction_date = outgoings[1].transaction_date
    /\ outgoings[1].amount # purchases[1].amount
    /\ LET call == balanceOverTime[1]
       IN  /\ call.series[1].balance = call.startingBalance + income[1].amount
           /\ call.series[2].balance = call.series[1].balance - outgoings[1].amount
           /\ call.series[3].balance = call.series[2].balance - purchases[1].amount

----------------------------------------------------------------------------
(* Vocabulary of the recurrence properties *)

\* The positions of the input whose date has the day number d, in any month
\* of any year
OnDay(d) ==
    {i \in 1..Len(transactions) : transactions[i].transaction_date[3] = d}

RECURSIVE SumOver(_)
\* Sum of the amounts of the input at the positions of a set
SumOver(positions) ==
    IF positions = {} THEN 0
    ELSE LET i == CHOOSE x \in positions : TRUE
         IN  transactions[i].amount + SumOver(positions \ {i})

\* C10: for every day number that two or more input transactions share,
\* whatever their months and years, the result has exactly one entry with
\* that dayOfMonth, and its amount is the mean of the amounts of all the
\* transactions of that day number.
C10_GroupsByDayOfMonth ==
    recurring # <<>> =>
        \A d \in 1..31 :
            Cardinality(OnDay(d)) >= 2 =>
                /\ Cardinality({k \in 1..Len(recurring[1]) :
                                    recurring[1][k].dayOfMonth = d}) = 1
                /\ \A k \in 1..Len(recurring[1]) :
                      recurring[1][k].dayOfMonth = d =>
                          recurring[1][k].amount.num * Cardinality(OnDay(d))
                              = SumOver(OnDay(d)) * recurring[1][k].amount.den

\* C10 witness: two transactions on the 5th of different months, with
\* different amounts, and a third on the 5th, gave one entry for day 5
C10_Witness ==
    /\ recurring # <<>>
    /\ Cardinality(OnDay(5)) = 3
    /\ \E i, j \in OnDay(5) :
          /\ transactions[i].transaction_date[2] # transactions[j].transaction_date[2]
          /\ transactions[i].amount # transactions[j].amount
    /\ SumOver(OnDay(5)) = 45
    /\ \E k \in 1..Len(recurring[1]) :
          /\ recurring[1][k].dayOfMonth = 5
          /\ recurring[1][k].amount = [num |-> 15, den |-> 1]

\* The input has no day number that two or more transactions share
NoGroupOfTwo ==
    \A d \in 1..31 : Cardinality(OnDay(d)) < 2

\* The positions of the result whose dayOfMonth is d
EntriesOnDay(d) ==
    {k \in 1..Len(recurring[1]) : recurring[1][k].dayOfMonth = d}

\* C11: when the input is non-empty and no day number is shared by two or
\* more transactions, the result has one entry per input transaction, in
\* input order, with that transaction's amount and day of month; and the
\* result is empty only when the input is empty.
C11_FallbackToEveryTransaction ==
    recurring # <<>> =>
        /\ (Len(transactions) > 0 /\ NoGroupOfTwo) =>
               /\ Len(recurring[1]) = Len(transactions)
               /\ \A i \in 1..Len(transactions) :
                     /\ recurring[1][i].amount
                            = [num |-> transactions[i].amount, den |-> 1]
                     /\ recurring[1][i].dayOfMonth
                            = transactions[i].transaction_date[3]
        /\ (recurring[1] = <<>> => transactions = <<>>)

\* C11 witness: two transactions on different day numbers came back as two
\* entries
C11_Witness ==
    /\ recurring # <<>>
    /\ Len(transactions) = 2
    /\ NoGroupOfTwo
    /\ Len(recurring[1]) = 2
    /\ recurring[1][1].dayOfMonth # recurring[1][2].dayOfMonth

\* C12 as stated: a day number with a single transaction has an entry of its
\* own in the result even when another day number has two or more
C12_SingletonReportedBesideGroup ==
    recurring # <<>> =>
        \A d \in 1..31 :
            (Cardinality(OnDay(d)) = 1 /\ ~NoGroupOfTwo) => EntriesOnDay(d) # {}

\* C12, amended: when some day number has two or more transactions, the
\* result has exactly one entry for each such day number, its amount the mean
\* of that day's amounts, and no entry for a day number with a single
\* transaction; days [5, 5, 5, 17] give the one entry of day 5.
C12_SingletonDroppedBesideGroup ==
    (recurring # <<>> /\ ~NoGroupOfTwo) =>
        \A d \in 1..31 :
            /\ Cardinality(OnDay(d)) >= 2 =>
                   /\ Cardinality(EntriesOnDay(d)) = 1
                   /\ \A k \in EntriesOnDay(d) :
                         recurring[1][k].amount.num * Cardinality(OnDay(d))
                             = SumOver(OnDay(d)) * recurring[1][k].amount.den
            /\ Cardinality(OnDay(d)) < 2 => EntriesOnDay(d) = {}

\* C12 witness: days [5, 5, 5, 17] gave the single entry of day 5
C12_Witness ==
    /\ recurring # <<>>
    /\ Len(transactions) = 4
    /\ \A i \in 1..3 : transactions[i].transaction_date[3] = 5
    /\ transactions[4].transaction_date[3] = 17
    /\ Len(recurring[1]) = 1
    /\ recurring[1][1].dayOfMonth = 5
    /\ recurring[1][1].amount.num * 3 = SumOver(OnDay(5)) * recurring[1][1].amount.den

----------------------------------------------------------------------------
(* Vocabulary of the projection properties *)

\* The value of the hook's call
Projection ==
    calculation[1].value

RECURSIVE PayDayFrom(_, _, _)
\* The first of the dates anchor + k months, anchor + (k + 1) months, ... that
\* is after the day `now`; each is counted from the anchor's own date
PayDayFrom(anchor, k, now) ==
    IF DayNumber(AddMonths(anchor, k)) > DayNumber(now)
    THEN AddMonths(anchor, k)
    ELSE PayDayFrom(anchor, k + 1, now)

\* The positions of the income list that hold its largest amount
LargestIncomes ==
    {i \in 1..Len(income) : \A j \in 1..Len(income) : income[j].amount <= income[i].amount}

\* C13: when the income list is empty, whatever the outgoings and purchases,
\* the call returns nextIncomeDate null and the five amounts 0.
C13_ZeroWithoutIncome ==
    (calculation # <<>> /\ calculation[1].arguments[1] = <<>>) =>
        Projection = [nextIncomeDate |-> <<>>,
                      totalMonthlyIncome |-> 0,
                      totalMonthlyOutgoings |-> 0,
                      totalMonthlyPurchases |-> 0,
                      projectedBalance |-> 0,
                      savingsPerMonth |-> 0]

\* C13 witness: a call with no income, an outgoing and a purchase has returned
C13_Witness ==
    /\ calculation # <<>>
    /\ income = <<>>
    /\ outgoings # <<>>
    /\ purchases # <<>>
    /\ Projection.nextIncomeDate = <<>>
    /\ Projection.totalMonthlyOutgoings = 0

\* C14 as stated: for all inputs the three totals are the sums of the amounts
\* of the whole lists, projectedBalance is income less outgoings and
\* purchases, and savingsPerMonth is projectedBalance
C14_TotalsForAllInputs ==
    calculation # <<>> =>
        /\ Projection.totalMonthlyIncome = SumAmounts(income)
        /\ Projection.totalMonthlyOutgoings = SumAmounts(outgoings)
        /\ Projection.totalMonthlyPurchases = SumAmounts(purchases)
        /\ Projection.projectedBalance
               = Projection.totalMonthlyIncome
                    - (Projection.totalMonthlyOutgoings + Projection.totalMonthlyPurchases)
        /\ Projection.savingsPerMonth = Projection.projectedBalance

\* C14, amended: whenever the income list is not empty, the three totals are
\* the sums of the amounts of the whole lists; and for all inputs
\* projectedBalance is totalMonthlyIncome less totalMonthlyOutgoings and
\* totalMonthlyPurchases, and savingsPerMonth is projectedBalance.
C14_TotalsWithIncome ==
    calculation # <<>> =>
        /\ income # <<>> =>
               /\ Projection.totalMonthlyIncome = SumAmounts(income)
               /\ Projection.totalMonthlyOutgoings = SumAmounts(outgoings)
               /\ Projection.totalMonthlyPurchases = SumAmounts(purchases)
        /\ Projection.projectedBalance
               = Projection.totalMonthlyIncome
                    - (Projection.totalMonthlyOutgoings + Projection.totalMonthlyPurchases)
        /\ Projection.savingsPerMonth = Projection.projectedBalance

\* C14 witness: two incomes, an outgoing and a purchase gave a balance that
\* counts all four
C14_Witness ==
    /\ calculation # <<>>
    /\ Len(income) = 2
    /\ Len(outgoings) = 1
    /\ Len(purchases) = 1
    /\ Projection.projectedBalance
           = income[1].amount + income[2].amount - outgoings[1].amount - purchases[1].amount

\* C15 as stated: with income, nextIncomeDate is the first date after the
\* current day among the anchor's date advanced by 0, 1, 2, ... whole months,
\* each keeping the anchor's day number, cut to the length of its month
C15_NextPayDay ==
    (calculation # <<>> /\ calculation[1].biggestIncome # <<>>) =>
        Projection.nextIncomeDate
            = <<PayDayFrom(calculation[1].biggestIncome[1].transaction_date, 0, today)>>

\* C16: the anchor is an income of the list whose amount no other exceeds,
\* the first such in the order of the list, and the list is as it was given.
C16_AnchorIsFirstLargest ==
    (calculation # <<>> /\ calculation[1].arguments[1] # <<>>) =>
        /\ calculation[1].biggestIncome # <<>>
        /\ \E i \in LargestIncomes :
              /\ calculation[1].biggestIncome[1] = income[i]
              /\ \A j \in LargestIncomes : i <= j
        /\ income = calculation[1].arguments[1]

\* C16 witness: the list has two incomes of the same amount on different
\* dates, and the first is the anchor
C16_Witness ==
    /\ calculation # <<>>
    /\ Len(income) = 2
    /\ income[1].amount = income[2].amount
    /\ income[1].transaction_date # income[2].transaction_date
    /\ calculation[1].biggestIncome = <<income[1]>>

\* C20 as stated: the Difference the card shows is the projectedBalance of
\* the data it is given
C20_DifferenceIsProjectedBalance ==
    (card # <<>> /\ recurringCalc # <<>>) =>
        /\ card[1].difference = recurringCalc[1].projectedBalance
        /\ card[1].difference
               = recurringCalc[1].totalMonthlyIncome
                    - (recurringCalc[1].totalMonthlyOutgoings
                          + recurringCalc[1].totalMonthlyPurchases)

----------------------------------------------------------------------------
(* Vocabulary of the duplicate removal properties *)

\* The entries of a collection, as a set
EntrySet(collection) ==
    {collection[i] : i \in 1..Len(collection)}

\* The entries of a collection that have the key
WithKey(collection, key) ==
    {e \in EntrySet(collection) : DuplicateKey(e) = key}

\* The keys that two or more entries of a collection have
DuplicatedKeys(collection) ==
    {key \in {DuplicateKey(e) : e \in EntrySet(collection)} :
        Cardinality(WithKey(collection, key)) >= 2}

----------------------------------------------------------------------------
(* Vocabulary of the properties of a change of type *)

\* The records of the backend for the transactions the store holds
CurrentRecords ==
    [i \in 1..Len(rawTransactions) |-> db[rawTransactions[i].id]]

\* Every request of the client has come back
AtRest ==
    requests = <<>> /\ typeChanges = <<>>

\* C19 as stated: once every change of type has resolved and every fetch it
\* started has come back without an error, the lists and the stats of the
\* store are the classification of the records as the backend now has them,
\* overrides included; no transaction is left under the category it had
\* before
C19_ListsFollowOverride ==
    (AtRest /\ error = <<>> /\ stats # <<>>) =>
        LET result == categorizeRawTransactions(CurrentRecords)
        IN  /\ StoreLists = result
            /\ stats = <<CalculateStats(result.outgoings, result.income, result.purchases)>>

----------------------------------------------------------------------------
(* The table of scheduled outgoings *)

\* The requests that carry a scheduled outgoing and have just been sent or
\* are on their way back
OutgoingsSent ==
    {i \in 1..Len(outgoingCalls) :
        outgoingCalls[i].handler \in {"handleImportTransaction", "handleSaveEdit"}}

\* C21: every scheduled outgoing that the import and the inline edit send
\* to the store has day_of_month within 1..31 and a positive amount, and an
\* import carries the day of the month of the chosen transaction's date and
\* the magnitude of its amount.
C21_SubmittedInRange ==
    \A i \in OutgoingsSent :
        LET call == outgoingCalls[i]
        IN  /\ call.data.day_of_month \in 1..31
            /\ call.data.amount > 0
            /\ call.handler = "handleImportTransaction" =>
                   /\ call.data.day_of_month = call.from.transaction_date[3]
                   /\ call.data.amount = Abs(call.from.amount)

\* The save-edit request that a step takes off the calls under way, with
\* the answer it carried
SaveEditSettled(answer) ==
    \E i \in 1..Len(outgoingCalls) :
        /\ outgoingCalls[i].handler = "handleSaveEdit"
        /\ outgoingCalls[i].state = answer
        /\ outgoingCalls' = RemoveAt(outgoingCalls, i)

RECURSIVE AmountsAt(_, _)
\* Sum of the amounts of a list at the positions of a set
AmountsAt(list, positions) ==
    IF positions = {} THEN 0
    ELSE LET i == CHOOSE x \in positions : TRUE
         IN  list[i].amount + AmountsAt(list, positions \ {i})

----------------------------------------------------------------------------
(* The balance chart *)

\* The positions of the series that carry the date
EventsOn(date) ==
    {i \in 1..Len(chart[1].data) : chart[1].data[i].date = date}

\* C22: normalizedData has exactly one point for every calendar day from
\* the earliest to the latest date of the series; a day with events shows
\* the balance of the last event of that day in series order, a day without
\* event the balance of the day before; dailyChange is 0 on the first day
\* and otherwise the difference from the balance of the day before.
C22_CalendarFilled ==
    chart # <<>> =>
        LET data == chart[1].data
            points == chart[1].normalizedData
            first == CHOOSE i \in 1..Len(data) :
                         \A j \in 1..Len(data) :
                             DayNumber(data[i].date) <= DayNumber(data[j].date)
            last == CHOOSE i \in 1..Len(data) :
                        \A j \in 1..Len(data) :
                            DayNumber(data[j].date) <= DayNumber(data[i].date)
        IN  /\ Len(points) = DayNumber(data[last].date) - DayNumber(data[first].date) + 1
            /\ \A k \in 1..Len(points) :
                   /\ points[k].date[2] \in 1..12
                   /\ points[k].date[3] \in
                          1..DaysInMonth(points[k].date[1], points[k].date[2])
                   /\ DayNumber(points[k].date) = DayNumber(data[first].date) + k - 1
                   /\ EventsOn(points[k].date) # {} =>
                          points[k].balance =
                              data[CHOOSE i \in EventsOn(points[k].date) :
                                       \A j \in EventsOn(points[k].date) : j <= i].balance
                   /\ (EventsOn(points[k].date) = {} /\ k > 1) =>
                          points[k].balance = points[k - 1].balance
                   /\ points[k].dailyChange =
                          IF k = 1 THEN 0
                          ELSE points[k].balance - points[k - 1].balance

\* A series with two events on 27 February 2024 and one on 2 March: the
\* chart has filled the leap day and the first of March
C22_Witness ==
    /\ chart # <<>>
    /\ Cardinality(EventsOn(<<2024, 2, 27>>)) = 2
    /\ EventsOn(<<2024, 2, 28>>) = {}
    /\ EventsOn(<<2024, 3, 2>>) # {}
    /\ Len(chart[1].normalizedData) = 5
    /\ chart[1].normalizedData[3].date = <<2024, 2, 29>>

\* C23: a day of the chart carries the income marker exactly when some raw
\* transaction dated that day is classified as income by the classifier,
\* with the override applied.
C23_MarkerFollowsClassifier ==
    chart # <<>> =>
        \A k \in 1..Len(chart[1].normalizedData) :
            LET point == chart[1].normalizedData[k]
                raws == chart[1].rawTransactions
            IN  point.incomeBar = <<1>> <=>
                    \E i \in 1..Len(raws) :
                        /\ raws[i].transaction_date = point.date
                        /\ \E e \in 1..Len(income) : income[e].id = raws[i].id

----------------------------------------------------------------------------
(* The outcome of a fetch *)

\* C24: a fetch that fails leaves rawTransactions, income, outgoings,
\* purchases and stats as they were, sets error to a message and leaves
\* loading false; a fetch that succeeds leaves error null and loading false.
C24_FetchOutcome ==
    [][/\ (\E i \in 1..MaxInFlight, m \in ErrorMessages : RawTransactionsRejected(i, m)) =>
              /\ UNCHANGED <<rawTransactions, income, outgoings, purchases, stats>>
              /\ error' # <<>>
              /\ loading' = FALSE
       /\ (\E i \in 1..MaxInFlight : RawTransactionsResolved(i)) =>
              /\ error' = <<>>
              /\ loading' = FALSE]_vars

\* C25: when fetches overlap, loading is never false while a fetch is still
\* in flight, and once every answer has arrived, in whatever order, and none
\* has failed, the store holds the transactions, the lists and the stats of
\* the month or the range that is selected.
C25_OverlappingFetches ==
    LET selected == IF useDateRange /\ dateRange # <<>>
                    THEN RowsOfDateRange(db, dateRange[1].startDate, dateRange[1].endDate)
                    ELSE RowsOfMonth(db, selectedMonth[1].year, selectedMonth[1].month)
        ids(rows) == [i \in 1..Len(rows) |-> rows[i].id]
        lists == [income |-> ids(income), outgoings |-> ids(outgoings),
                  purchases |-> ids(purchases)]
    IN  /\ requests # <<>> => loading
        /\ (AtRest /\ error = <<>> /\ stats # <<>>) =>
               /\ ids(rawTransactions) = ids(selected)
               /\ \A name \in DOMAIN lists :
                      \A i \in 1..Len(lists[name]) :
                          \E j \in 1..Len(selected) : selected[j].id = lists[name][i]
               /\ stats[1].outgoing_count + stats[1].purchase_count
                      + stats[1].income_count <= Len(selected)

----------------------------------------------------------------------------
(* The date-range mode *)

\* C26: after every step of the toggle, the date fields and the month
\* select, useDateRange implies a dateRange with both startDate and endDate
\* set; switching the mode off leaves dateRange as it was; and a fetch by
\* month starts only with useDateRange false, a fetch by range only with
\* useDateRange true.
C26_DateRangeMode ==
    [][/\ useDateRange' => /\ dateRange' # <<>>
                           /\ dateRange'[1].startDate # EmptyStr
                           /\ dateRange'[1].endDate # EmptyStr
       /\ (useDateRange /\ ~useDateRange') => dateRange' = dateRange
       /\ Len(requests') > Len(requests) =>
              (requests'[Len(requests')].kind = "month") = ~useDateRange']_vars

----------------------------------------------------------------------------
(* The loop that advances nextIncomeDate *)

\* The loop has been left
LoopDone ==
    whileLoop # <<>> /\ whileLoop[1].pc = "done"

\* C29: for every non-empty income and every current day the loop comes to
\* its end; each run of its body moves nextIncomeDate strictly forward, into
\* the next month; at the end nextIncomeDate is strictly after the current
\* day, and it is the anchor date itself when that is already in the future.
C29_LoopTerminates ==
    /\ [][(whileLoop # <<>> /\ whileLoop' # whileLoop /\ whileLoop'[1].pc = "while") =>
              /\ GetTime(whileLoop'[1].nextIncomeDate) > GetTime(whileLoop[1].nextIncomeDate)
              /\ 12 * whileLoop'[1].nextIncomeDate[1] + whileLoop'[1].nextIncomeDate[2]
                     = 12 * whileLoop[1].nextIncomeDate[1] + whileLoop[1].nextIncomeDate[2] + 1]_vars
    /\ [](LoopDone =>
              /\ GetTime(whileLoop[1].nextIncomeDate) > GetTime(today)
              /\ GetTime(BiggestIncome(income)[1].transaction_date) > GetTime(today) =>
                     whileLoop[1].nextIncomeDate = BiggestIncome(income)[1].transaction_date)
    /\ (income # <<>>) ~> LoopDone

\* The loop has ended after its body ran: the pay day was not in the future
C29_Witness ==
    /\ whileLoop # <<>>
    /\ whileLoop[1].pc = "done"
    /\ whileLoop[1].nextIncomeDate # BiggestIncome(income)[1].transaction_date

====
